---- MODULE Spec2Model ----
(***************************************************************************)
(* Model of the Hydrict dashboard (src/App.tsx, src/utils/csvParser.ts).   *)
(*                                                                         *)
(* Representation.                                                         *)
(*  - A JavaScript string is a sequence of one-character strings, so that  *)
(*    the character scanners of the source (parseCSV, parseFloat, parseInt)*)
(*    can be written as the code writes them.  '' is << >>.                *)
(*  - undefined is the value Undefined, a sequence that is no string.      *)
(*  - A number is a double, held as a fraction with a bound of its        *)
(*    rounding error (section Numbers).                                    *)
(*  - What ECMAScript leaves to the implementation (the reading of a date  *)
(*    string outside the specified format, the result of a sort whose      *)
(*    comparator is inconsistent) is a choice among the allowed outcomes.  *)
(***************************************************************************)
EXTENDS Integers, Sequences, FiniteSets

\* ------------------------------------------------------------------------
\* Bounds of the model (not program constants).
\* ------------------------------------------------------------------------
MaxUploads == 2
MaxExpenses == 1

\* ------------------------------------------------------------------------
\* Strings
\* ------------------------------------------------------------------------
Undefined == <<"undefined">>

DigitChars == <<"0", "1", "2", "3", "4", "5", "6", "7", "8", "9">>

IsDigit(c) == \E i \in 1..10 : DigitChars[i] = c

DigitVal(c) == (CHOOSE i \in 1..10 : DigitChars[i] = c) - 1

\* The characters String.prototype.trim removes and parseFloat and parseInt
\* skip: WhiteSpace and LineTerminator of ECMAScript.  In the order of the
\* set: U+0020, U+0009 (tab), U+000A (line feed), U+000C (form feed), U+000D
\* (carriage return), U+000B (vertical tab), U+00A0 (no-break space), U+1680
\* (ogham space mark), U+FEFF (zero width no-break space).  The remaining
\* ones (U+2000 to U+200A, U+2028, U+2029, U+202F, U+205F, U+3000) cannot be
\* written in a string of this language, so no string here holds them.
IsSpace(c) ==
  c \in {" ", "\t", "\n", "\f", "\r", "", " ", " ", "﻿"}

RECURSIVE TrimStart(_)
TrimStart(s) ==
  IF s # << >> /\ IsSpace(Head(s)) THEN TrimStart(Tail(s)) ELSE s

RECURSIVE TrimEnd(_)
TrimEnd(s) ==
  IF s # << >> /\ IsSpace(s[Len(s)]) THEN TrimEnd(SubSeq(s, 1, Len(s) - 1)) ELSE s

Trim(s) == TrimEnd(TrimStart(s))

\* a || b on strings: '' and undefined are falsy.
StrOr(a, b) == IF a = Undefined \/ a = << >> THEN b ELSE a

\* n.toString() for n >= 0.
RECURSIVE NatToString(_)
NatToString(n) ==
  IF n < 10 THEN <<DigitChars[n + 1]>>
  ELSE NatToString(n \div 10) \o <<DigitChars[(n % 10) + 1]>>

\* ------------------------------------------------------------------------
\* Numbers
\* ------------------------------------------------------------------------
\* A JavaScript number is an IEEE 754 double.  The model holds it as
\*   [n, d, e]: the fraction n / d in lowest terms (d > 0) and a bound e of
\*   the distance between the double and n / d, in units of 2^-52.  e = 0
\*   says that the double is n / d exactly, which is so for every fraction
\*   whose denominator is a power of two (the model's integers stay below
\*   2^31, so the numerator fits the 53 bits of a double);
\*   d = 0: the double is not finite, n = 1 for Infinity, n = -1 for
\*   -Infinity, n = 0 for NaN;
\*   AnyNumber: a double that the roundings decide and the fractions do not
\*   (the result of a test on a sum whose fractions cancel to 0 while the
\*   doubles need not).
\* The sign of a zero is not held: no operation of the source reads it.
Abs(x) == IF x < 0 THEN 0 - x ELSE x

RECURSIVE Gcd(_, _)
Gcd(a, b) == IF b = 0 THEN a ELSE Gcd(b, a % b)

RECURSIVE IsPowerOfTwo(_)
IsPowerOfTwo(d) == d = 1 \/ (d > 1 /\ d % 2 = 0 /\ IsPowerOfTwo(d \div 2))

NaN == [n |-> 0, d |-> 0, e |-> 0]

Infinity(sign) == [n |-> sign, d |-> 0, e |-> 0]

AnyNumber == [n |-> 0, d |-> 0, e |-> 0 - 1]

\* The double of an integer below 2^31.
NumOf(i) == [n |-> i, d |-> 1, e |-> 0]

IsNaN(x) == x.d = 0 /\ x.n = 0 /\ x.e = 0

IsAny(x) == x.e < 0

IsInf(x) == x.d = 0 /\ x.n # 0

IsExactZero(x) == x.d > 0 /\ x.n = 0 /\ x.e = 0

\* The least integer that is at least |n / d|, and at least 1.
Mag(n, d) == IF n = 0 THEN 1 ELSE (Abs(n) + d - 1) \div d

\* n / d in lowest terms with a positive denominator (d # 0).
Lowest(n, d) ==
  LET g == Gcd(Abs(n), Abs(d))
      sgn == IF d < 0 THEN 0 - 1 ELSE 1
  IN  [n |-> sgn * (n \div g), d |-> sgn * (d \div g)]

\* The double nearest to n / d: n / d itself when the denominator is a power
\* of two, and within half a unit of the last place of it otherwise.
Nearest(n, d) ==
  LET r == Lowest(n, d)
  IN  [n |-> r.n, d |-> r.d, e |-> IF IsPowerOfTwo(r.d) THEN 0 ELSE Mag(r.n, r.d)]

\* The sign of a double that is not NaN: -1, 0, 1, or 2 when the roundings
\* decide it.  The fraction decides it when the error bound is below
\* |n / d|, that is e * d < |n| * 2^52, which e <= |n| * 2^21 implies for
\* every d below 2^31.
Sign(x) ==
  LET decided ==
        \/ x.e = 0
        \/ x.e > 0 /\ x.n # 0 /\ (Abs(x.n) >= 1024 \/ x.e <= Abs(x.n) * 2097152)
  IN  IF IsAny(x) \/ ~decided THEN 2
      ELSE IF x.n > 0 THEN 1 ELSE IF x.n < 0 THEN 0 - 1 ELSE 0

\* x > 0: "true", "false", or "either" when the roundings decide it.
IsPositive(x) ==
  IF IsNaN(x) THEN "false"
  ELSE IF Sign(x) = 2 THEN "either"
  ELSE IF Sign(x) = 1 THEN "true" ELSE "false"

\* test ? a : b
Conditional(test, a, b) ==
  IF test = "true" THEN a
  ELSE IF test = "false" THEN b
  ELSE IF a = b THEN a ELSE AnyNumber

\* x || d on numbers: NaN and 0 are falsy.
NumOr(x, d) ==
  LET truthy == IF IsNaN(x) THEN "false"
                ELSE IF Sign(x) = 2 THEN "either"
                ELSE IF Sign(x) = 0 THEN "false" ELSE "true"
  IN  Conditional(truthy, x, d)

\* a + b
NumAdd(a, b) ==
  IF IsNaN(a) \/ IsNaN(b) THEN NaN
  ELSE IF IsAny(a) \/ IsAny(b) THEN AnyNumber
  ELSE IF IsInf(a) THEN (IF IsInf(b) /\ b.n # a.n THEN NaN ELSE a)
  ELSE IF IsInf(b) THEN b
  ELSE IF IsExactZero(b) THEN a
  ELSE IF IsExactZero(a) THEN b
  ELSE LET l == (a.d \div Gcd(a.d, b.d)) * b.d
           r == Lowest(a.n * (l \div a.d) + b.n * (l \div b.d), l)
       IN  [n |-> r.n, d |-> r.d,
            e |-> IF a.e = 0 /\ b.e = 0 THEN 0 ELSE a.e + b.e + Mag(r.n, r.d)]

NumNeg(a) == [a EXCEPT !.n = 0 - a.n]

\* a - b
NumSub(a, b) == NumAdd(a, NumNeg(b))

\* a * b
NumMul(a, b) ==
  IF IsNaN(a) \/ IsNaN(b) THEN NaN
  ELSE IF IsAny(a) \/ IsAny(b) THEN AnyNumber
  ELSE IF IsInf(a) \/ IsInf(b)
       THEN IF Sign(a) = 2 \/ Sign(b) = 2 THEN AnyNumber
            ELSE IF Sign(a) = 0 \/ Sign(b) = 0 THEN NaN
            ELSE Infinity(Sign(a) * Sign(b))
  ELSE IF IsExactZero(a) \/ IsExactZero(b) THEN NumOf(0)
  ELSE LET g1 == Gcd(Abs(a.n), b.d)
           g2 == Gcd(Abs(b.n), a.d)
           r == [n |-> (a.n \div g1) * (b.n \div g2), d |-> (a.d \div g2) * (b.d \div g1)]
       IN  [n |-> r.n, d |-> r.d,
            e |-> IF a.e = 0 /\ b.e = 0 THEN 0
                  ELSE Mag(a.n, a.d) * b.e + Mag(b.n, b.d) * a.e + Mag(r.n, r.d) + 1]

\* a / b
NumDiv(a, b) ==
  IF IsNaN(a) \/ IsNaN(b) THEN NaN
  ELSE IF IsAny(a) \/ IsAny(b) \/ Sign(b) = 2 THEN AnyNumber
  ELSE IF IsInf(a)
       THEN IF IsInf(b) THEN NaN
            ELSE Infinity(IF Sign(b) = 0 THEN a.n ELSE a.n * Sign(b))
  ELSE IF IsInf(b) THEN NumOf(0)
  ELSE IF Sign(b) = 0
       THEN IF Sign(a) = 2 THEN AnyNumber
            ELSE IF Sign(a) = 0 THEN NaN ELSE Infinity(Sign(a))
  ELSE IF IsExactZero(a) THEN NumOf(0)
  ELSE LET g1 == Gcd(Abs(a.n), Abs(b.n))
           g2 == Gcd(a.d, b.d)
           r == Lowest((a.n \div g1) * (b.d \div g2), (a.d \div g2) * (b.n \div g1))
       IN  [n |-> r.n, d |-> r.d,
            e |-> IF a.e = 0 /\ b.e = 0 /\ IsPowerOfTwo(r.d) THEN 0
                  ELSE ((a.e + Mag(r.n, r.d) * b.e) * b.d) \div Abs(b.n)
                       + Mag(r.n, r.d) + 2]

\* reduce((acc, x) => acc + x, 0) over a sequence of numbers, from the left.
RECURSIVE SumNums(_)
SumNums(s) ==
  IF s = << >> THEN NumOf(0)
  ELSE NumAdd(SumNums(SubSeq(s, 1, Len(s) - 1)), s[Len(s)])

\* ------------------------------------------------------------------------
\* parseFloat / parseInt
\* ------------------------------------------------------------------------
\* Number of leading digits of s.
RECURSIVE DigitRun(_)
DigitRun(s) ==
  IF s # << >> /\ IsDigit(Head(s)) THEN 1 + DigitRun(Tail(s)) ELSE 0

\* Value of a sequence of digits.
RECURSIVE DigitsValue(_)
DigitsValue(s) ==
  IF s = << >> THEN 0
  ELSE 10 * DigitsValue(SubSeq(s, 1, Len(s) - 1)) + DigitVal(s[Len(s)])

RECURSIVE StripTrailingZeros(_)
StripTrailingZeros(s) ==
  IF s # << >> /\ s[Len(s)] = "0"
  THEN StripTrailingZeros(SubSeq(s, 1, Len(s) - 1)) ELSE s

\* The ExponentPart at the start of t (e or E, an optional sign, digits), as
\* its value; 0 when there is none.
ExponentPart(t) ==
  LET hasE == t # << >> /\ Head(t) \in {"e", "E"}
      b == IF hasE THEN Tail(t) ELSE << >>
      signed == b # << >> /\ Head(b) \in {"-", "+"}
      digits == IF signed THEN Tail(b) ELSE b
      mag == DigitsValue(SubSeq(digits, 1, DigitRun(digits)))
  IN  IF signed /\ Head(b) = "-" THEN 0 - mag ELSE mag

\* parseFloat(s): white space is skipped, then the longest prefix that is a
\* StrDecimalLiteral is read: an optional sign, then Infinity, or digits with
\* an optional fraction (digits . digits, digits . or . digits) and an
\* optional exponent; NaN when there is no such prefix.  undefined is
\* converted to the string "undefined", which is NaN.  The value is the
\* double nearest to the decimal that was read.
ParseFloat(str) ==
  LET s == TrimStart(str)
      signed == s # << >> /\ Head(s) \in {"-", "+"}
      body == IF signed THEN Tail(s) ELSE s
      ni == DigitRun(body)
      hasDot == Len(body) > ni /\ body[ni + 1] = "."
      nf == IF hasDot THEN DigitRun(SubSeq(body, ni + 2, Len(body))) ELSE 0
      fraction == StripTrailingZeros(SubSeq(body, ni + 2, ni + 1 + nf))
      mantissa == DigitsValue(SubSeq(body, 1, ni) \o fraction)
      rest == SubSeq(body, ni + nf + (IF hasDot THEN 2 ELSE 1), Len(body))
      scale == Len(fraction) - ExponentPart(rest)
      mag == IF mantissa = 0 THEN NumOf(0)
             ELSE IF scale >= 0 THEN Nearest(mantissa, 10 ^ scale)
             ELSE NumOf(mantissa * 10 ^ (0 - scale))
      sign == IF signed /\ Head(s) = "-" THEN 0 - 1 ELSE 1
  IN  IF str = Undefined THEN NaN
      ELSE IF Len(body) >= 8
              /\ SubSeq(body, 1, 8) = <<"I", "n", "f", "i", "n", "i", "t", "y">>
           THEN Infinity(sign)
      ELSE IF ni + nf = 0 THEN NaN
      ELSE IF sign < 0 THEN NumNeg(mag) ELSE mag

HexChars ==
  <<"0", "1", "2", "3", "4", "5", "6", "7", "8", "9", "a", "b", "c", "d",
    "e", "f", "A", "B", "C", "D", "E", "F">>

IsHexDigit(c) == \E i \in 1..22 : HexChars[i] = c

RECURSIVE HexRun(_)
HexRun(s) ==
  IF s # << >> /\ IsHexDigit(Head(s)) THEN 1 + HexRun(Tail(s)) ELSE 0

RECURSIVE HexValue(_)
HexValue(s) ==
  LET i == CHOOSE i \in 1..22 : HexChars[i] = s[Len(s)]
  IN  IF s = << >> THEN 0
      ELSE 16 * HexValue(SubSeq(s, 1, Len(s) - 1)) + (IF i <= 16 THEN i - 1 ELSE i - 7)

\* parseInt(s) without a radix: white space is skipped, an optional sign,
\* then after 0x or 0X the longest prefix of hexadecimal digits, and
\* otherwise the longest prefix of decimal digits; NaN when that prefix is
\* empty.
ParseInt(str) ==
  LET s == TrimStart(str)
      neg == s # << >> /\ Head(s) = "-"
      signed == s # << >> /\ Head(s) \in {"-", "+"}
      body == IF signed THEN Tail(s) ELSE s
      hex == Len(body) >= 2 /\ body[1] = "0" /\ body[2] \in {"x", "X"}
      digits == IF hex THEN SubSeq(body, 3, Len(body)) ELSE body
      nd == IF hex THEN HexRun(digits) ELSE DigitRun(digits)
      mag == IF hex THEN HexValue(SubSeq(digits, 1, nd))
             ELSE DigitsValue(SubSeq(digits, 1, nd))
  IN  IF str = Undefined \/ nd = 0 THEN NaN
      ELSE NumOf(IF neg THEN 0 - mag ELSE mag)

\* ------------------------------------------------------------------------
\* parseCSV (src/utils/csvParser.ts)
\* ------------------------------------------------------------------------
\* text.split(/\r?\n/): the pieces between the line feeds, without the
\* carriage return that ends a piece.
SplitLines(text) ==
  LET feeds == {i \in 1..Len(text) : text[i] = "\n"}
      \* the position of the k-th line feed; 0 and Len(text) + 1 bracket them
      feed(k) == IF k = 0 THEN 0
                 ELSE IF k > Cardinality(feeds) THEN Len(text) + 1
                 ELSE CHOOSE i \in feeds : Cardinality({j \in feeds : j < i}) = k - 1
      piece(k) == SubSeq(text, feed(k - 1) + 1, feed(k) - 1)
      ended(k) == k <= Cardinality(feeds) /\ piece(k) # << >>
                  /\ piece(k)[Len(piece(k))] = "\r"
  IN  [k \in 1..(Cardinality(feeds) + 1) |->
         IF ended(k) THEN SubSeq(piece(k), 1, Len(piece(k)) - 1) ELSE piece(k)]

NonBlank(line) == Trim(line) # << >>

\* splitLine: a quote toggles inQuotes and is dropped, a comma outside quotes
\* ends the field, every field is trimmed.
RECURSIVE SplitLineFrom(_, _, _, _, _)
SplitLineFrom(line, i, cur, inQuotes, result) ==
  IF i > Len(line) THEN Append(result, Trim(cur))
  ELSE IF line[i] = "\""
       THEN SplitLineFrom(line, i + 1, cur, ~inQuotes, result)
       ELSE IF line[i] = "," /\ ~inQuotes
            THEN SplitLineFrom(line, i + 1, << >>, inQuotes, Append(result, Trim(cur)))
            ELSE SplitLineFrom(line, i + 1, Append(cur, line[i]), inQuotes, result)

splitLine(line) == SplitLineFrom(line, 1, << >>, FALSE, << >>)

\* s.replace(/^"|"$/g, ''): a leading and a trailing quote are removed.
StripQuotes(s) ==
  LET a == IF s # << >> /\ Head(s) = "\"" THEN Tail(s) ELSE s
  IN  IF a # << >> /\ a[Len(a)] = "\"" THEN SubSeq(a, 1, Len(a) - 1) ELSE a

\* The header __proto__: obj['__proto__'] = v calls the setter inherited
\* from Object.prototype, which does nothing for a v that is a string or
\* undefined, so the object gets no property of that name.
sProto == <<"_", "_", "p", "r", "o", "t", "o", "_", "_">>

\* A row object: a function from the non-empty header names (without
\* __proto__) to the values, values[i] || '' for the last column i that
\* carries the header.
RowObject(headers, values) ==
  LET keys == {headers[i] : i \in {j \in 1..Len(headers) : headers[j] # << >>}}
                \ {sProto}
      last(k) == CHOOSE i \in 1..Len(headers) :
                   /\ headers[i] = k
                   /\ \A j \in 1..Len(headers) : headers[j] = k => j <= i
  IN  [k \in keys |-> IF last(k) <= Len(values) THEN values[last(k)] ELSE << >>]

\* ------------------------------------------------------------------------
\* parseCSV of the second copy (src/unnamed/part_000), which App does not
\* import
\* ------------------------------------------------------------------------
\* line.split(','): the pieces between the commas.
SplitOnCommas(line) ==
  LET commas == {i \in 1..Len(line) : line[i] = ","}
      comma(k) == IF k = 0 THEN 0
                  ELSE IF k > Cardinality(commas) THEN Len(line) + 1
                  ELSE CHOOSE i \in commas : Cardinality({j \in commas : j < i}) = k - 1
  IN  [k \in 1..(Cardinality(commas) + 1) |->
         SubSeq(line, comma(k - 1) + 1, comma(k) - 1)]

\* v.trim().replace(/"/g, ''): trimmed, then every quote removed.
TrimUnquote(v) ==
  LET notQuote(c) == c # "\""
  IN  SelectSeq(Trim(v), notQuote)

\* obj[header] = values[i] for every header, the empty one included and
\* __proto__ left out; a header beyond the values maps to undefined.
RowObject_part000(headers, values) ==
  LET keys == {headers[i] : i \in 1..Len(headers)} \ {sProto}
      last(k) == CHOOSE i \in 1..Len(headers) :
                   /\ headers[i] = k
                   /\ \A j \in 1..Len(headers) : headers[j] = k => j <= i
  IN  [k \in keys |-> IF last(k) <= Len(values) THEN values[last(k)] ELSE Undefined]

parseCSV_part000(text) ==
  LET lines == SplitLines(text)
      split(line) == [i \in 1..Len(SplitOnCommas(line)) |-> TrimUnquote(SplitOnCommas(line)[i])]
      headers == split(lines[1])
      rest == SelectSeq(SubSeq(lines, 2, Len(lines)), NonBlank)
  IN  [r \in 1..Len(rest) |-> RowObject_part000(headers, split(rest[r]))]

\* ------------------------------------------------------------------------
\* parseCSV (src/utils/csvParser.ts), continued
\* ------------------------------------------------------------------------
\* A faulty variant of parseCSV: every comma splits and every quote is
\* removed, as in the copy of src/unnamed/part_000.
parseCSV_SplitsEveryComma(text) == parseCSV_part000(text)

\* A faulty variant of parseCSV: the header line is returned as a row too.
parseCSV_HeaderAsRow(text) ==
  LET lines == SelectSeq(SplitLines(text), NonBlank)
      headers == [i \in 1..Len(splitLine(lines[1])) |-> StripQuotes(splitLine(lines[1])[i])]
      valuesOf(line) == [i \in 1..Len(splitLine(line)) |-> StripQuotes(splitLine(line)[i])]
  IN  IF Len(lines) = 0 THEN << >>
      ELSE [r \in 1..Len(lines) |-> RowObject(headers, valuesOf(lines[r]))]

parseCSV(text) ==
  LET lines == SelectSeq(SplitLines(text), NonBlank)
      headers == [i \in 1..Len(splitLine(lines[1])) |-> StripQuotes(splitLine(lines[1])[i])]
      valuesOf(line) == [i \in 1..Len(splitLine(line)) |-> StripQuotes(splitLine(line)[i])]
  IN  IF Len(lines) = 0 THEN << >>
      ELSE [r \in 1..(Len(lines) - 1) |-> RowObject(headers, valuesOf(lines[r + 1]))]

\* row[key] for the keys lines 103-120 read, none of which is inherited from
\* Object.prototype: undefined when the row has no such property.
Field(row, key) == IF key \in DOMAIN row THEN row[key] ELSE Undefined

\* ------------------------------------------------------------------------
\* String constants of the source
\* ------------------------------------------------------------------------
hName == <<"N", "a", "m", "e">>
hCreatedAt == <<"C", "r", "e", "a", "t", "e", "d", " ", "a", "t">>
hDate == <<"D", "a", "t", "e">>
hTotal == <<"T", "o", "t", "a", "l">>
hSubtotal == <<"S", "u", "b", "t", "o", "t", "a", "l">>
hTax == <<"T", "a", "x">>
hShipping == <<"S", "h", "i", "p", "p", "i", "n", "g">>
hSKU == <<"S", "K", "U">>
hTitle == <<"T", "i", "t", "l", "e">>
hQuantity == <<"Q", "u", "a", "n", "t", "i", "t", "y">>
hPrice == <<"P", "r", "i", "c", "e">>
hAmountSpent == <<"A", "m", "o", "u", "n", "t", " ", "S", "p", "e", "n", "t">>
hSpend == <<"S", "p", "e", "n", "d">>
hImpressions == <<"I", "m", "p", "r", "e", "s", "s", "i", "o", "n", "s">>
hClicks == <<"C", "l", "i", "c", "k", "s">>
sPaid == <<"P", "a", "i", "d">>
sTools == <<"T", "o", "o", "l", "s">>
sHY01 == <<"H", "Y", "-", "0", "1">>
sHY02 == <<"H", "Y", "-", "0", "2">>
sBottle ==
  <<"H", "y", "d", "r", "i", "c", "t", " ", "B", "o", "t", "t", "l", "e",
    " ", "V", "1">>
sFilter ==
  <<"H", "y", "d", "r", "i", "c", "t", " ", "F", "i", "l", "t", "e", "r",
    " ", "P", "r", "o">>
d20231001 == <<"2", "0", "2", "3", "-", "1", "0", "-", "0", "1">>
d20231002 == <<"2", "0", "2", "3", "-", "1", "0", "-", "0", "2">>
d20231003 == <<"2", "0", "2", "3", "-", "1", "0", "-", "0", "3">>

\* The strings the AI panel stores are never scanned by the code: they are
\* plain strings, '' is "".
FailureMessage ==
  "Failed to generate AI insights. Please check your data or try again later."

\* new Date().toISOString().split('T')[0] at the time of an upload.
Today == <<"2", "0", "2", "3", "-", "1", "0", "-", "0", "4">>

MOCK_ORDERS ==
  << [id |-> <<"1">>, name |-> <<"#", "1", "0", "0", "1">>, date |-> d20231001,
      total |-> Nearest(12050, 100), subtotal |-> NumOf(100), tax |-> NumOf(5),
      shipping |-> Nearest(1550, 100),
      status |-> <<"f", "u", "l", "f", "i", "l", "l", "e", "d">>,
      lineItems |-> <<[sku |-> sHY01, title |-> sBottle, quantity |-> NumOf(1),
                       price |-> NumOf(100)]>>],
     [id |-> <<"2">>, name |-> <<"#", "1", "0", "0", "2">>, date |-> d20231002,
      total |-> NumOf(240), subtotal |-> NumOf(200), tax |-> NumOf(10),
      shipping |-> NumOf(30),
      status |-> <<"f", "u", "l", "f", "i", "l", "l", "e", "d">>,
      lineItems |-> <<[sku |-> sHY01, title |-> sBottle, quantity |-> NumOf(2),
                       price |-> NumOf(100)]>>],
     [id |-> <<"3">>, name |-> <<"#", "1", "0", "0", "3">>, date |-> d20231003,
      total |-> NumOf(95), subtotal |-> NumOf(80), tax |-> NumOf(5),
      shipping |-> NumOf(10), status |-> <<"p", "e", "n", "d", "i", "n", "g">>,
      lineItems |-> <<[sku |-> sHY02, title |-> sFilter, quantity |-> NumOf(1),
                       price |-> NumOf(80)]>>] >>

InitialCogs ==
  << [sku |-> sHY01, productName |-> sBottle, cogs |-> NumOf(25)],
     [sku |-> sHY02, productName |-> sFilter, cogs |-> NumOf(12)] >>

\* ------------------------------------------------------------------------
\* The files a user picks (the inputs of handleFileUpload)
\* ------------------------------------------------------------------------
\* Name,Created at,Total,Shipping,SKU,Quantity
\* #2001,2023-10-02,50.00,5,HY-01,2
\* #2002,2023-09-30,30,0,HY-09,1
OrdersA ==
  <<"N", "a", "m", "e", ",", "C", "r", "e", "a", "t", "e", "d", " ", "a",
    "t", ",", "T", "o", "t", "a", "l", ",", "S", "h", "i", "p", "p", "i",
    "n", "g", ",", "S", "K", "U", ",", "Q", "u", "a", "n", "t", "i", "t",
    "y", "\n", "#", "2", "0", "0", "1", ",", "2", "0", "2", "3", "-", "1",
    "0", "-", "0", "2", ",", "5", "0", ".", "0", "0", ",", "5", ",", "H",
    "Y", "-", "0", "1", ",", "2", "\n", "#", "2", "0", "0", "2", ",", "2",
    "0", "2", "3", "-", "0", "9", "-", "3", "0", ",", "3", "0", ",", "0",
    ",", "H", "Y", "-", "0", "9", ",", "1", "\n">>

\* Date,Campaign Name,Amount Spent,Clicks
\* 2023-10-01,Launch,400,12
AdsA ==
  <<"D", "a", "t", "e", ",", "C", "a", "m", "p", "a", "i", "g", "n", " ",
    "N", "a", "m", "e", ",", "A", "m", "o", "u", "n", "t", " ", "S", "p",
    "e", "n", "t", ",", "C", "l", "i", "c", "k", "s", "\n", "2", "0", "2",
    "3", "-", "1", "0", "-", "0", "1", ",", "L", "a", "u", "n", "c", "h",
    ",", "4", "0", "0", ",", "1", "2", "\n">>

\* Day,Total sales
\* 2023-10-02,999
SalesA ==
  <<"D", "a", "y", ",", "T", "o", "t", "a", "l", " ", "s", "a", "l", "e",
    "s", "\n", "2", "0", "2", "3", "-", "1", "0", "-", "0", "2", ",", "9",
    "9", "9", "\n">>

\* Order,Fees
\* #1001,7.25
SettlementA ==
  <<"O", "r", "d", "e", "r", ",", "F", "e", "e", "s", "\n", "#", "1", "0",
    "0", "1", ",", "7", ".", "2", "5", "\n">>

\* Total,Subtotal,Tax,Shipping,Price,Quantity
\* abc,,x, ,-,q
NumBad ==
  <<"T", "o", "t", "a", "l", ",", "S", "u", "b", "t", "o", "t", "a", "l",
    ",", "T", "a", "x", ",", "S", "h", "i", "p", "p", "i", "n", "g", ",",
    "P", "r", "i", "c", "e", ",", "Q", "u", "a", "n", "t", "i", "t", "y",
    "\n", "a", "b", "c", ",", ",", "x", ",", " ", ",", "-", ",", "q", "\n">>

\* Total,Subtotal,Tax,Shipping,Price,Quantity
\* 12.5
NumShort ==
  <<"T", "o", "t", "a", "l", ",", "S", "u", "b", "t", "o", "t", "a", "l",
    ",", "T", "a", "x", ",", "S", "h", "i", "p", "p", "i", "n", "g", ",",
    "P", "r", "i", "c", "e", ",", "Q", "u", "a", "n", "t", "i", "t", "y",
    "\n", "1", "2", ".", "5", "\n">>

\* Total,Subtotal,Tax,Shipping,Price,Quantity
\* 12.5,10,1,1.5,5,2
NumGood ==
  <<"T", "o", "t", "a", "l", ",", "S", "u", "b", "t", "o", "t", "a", "l",
    ",", "T", "a", "x", ",", "S", "h", "i", "p", "p", "i", "n", "g", ",",
    "P", "r", "i", "c", "e", ",", "Q", "u", "a", "n", "t", "i", "t", "y",
    "\n", "1", "2", ".", "5", ",", "1", "0", ",", "1", ",", "1", ".", "5",
    ",", "5", ",", "2", "\n">>

\* Total,Quantity
\* 12abc,3x
NumPrefix ==
  <<"T", "o", "t", "a", "l", ",", "Q", "u", "a", "n", "t", "i", "t", "y",
    "\n", "1", "2", "a", "b", "c", ",", "3", "x", "\n">>

\* Name
\* #7
\* #8
NumAbsent == <<"N", "a", "m", "e", "\n", "#", "7", "\n", "#", "8", "\n">>

\* Date,Amount Spent,Impressions,Clicks
\* 2023-10-01,abc,,x
AdsBad ==
  <<"D", "a", "t", "e", ",", "A", "m", "o", "u", "n", "t", " ", "S", "p",
    "e", "n", "t", ",", "I", "m", "p", "r", "e", "s", "s", "i", "o", "n",
    "s", ",", "C", "l", "i", "c", "k", "s", "\n", "2", "0", "2", "3", "-",
    "1", "0", "-", "0", "1", ",", "a", "b", "c", ",", ",", "x", "\n">>

\* Date
\* 2023-10-01
AdsAbsent ==
  <<"D", "a", "t", "e", "\n", "2", "0", "2", "3", "-", "1", "0", "-", "0",
    "1", "\n">>

\* Amount Spent,Spend
\* abc,5
AdsBothSpend ==
  <<"A", "m", "o", "u", "n", "t", " ", "S", "p", "e", "n", "t", ",", "S",
    "p", "e", "n", "d", "\n", "a", "b", "c", ",", "5", "\n">>

\* 
\* (no character)
Empty == << >>

\* Three blank lines: an empty one, one of two spaces, one of \r.
Blank == <<"\n", " ", " ", "\n", "\r", "\n">>

\* (an empty line)
\* Name,Total
BlankThenHeader ==
  <<"\n", "N", "a", "m", "e", ",", "T", "o", "t", "a", "l", "\n">>

\* Name,Total
HeaderOnly == <<"N", "a", "m", "e", ",", "T", "o", "t", "a", "l", "\n">>

\* Name,Total
HeaderNoFeed == <<"N", "a", "m", "e", ",", "T", "o", "t", "a", "l">>

\* Name,Title,Total
\* #1,"Bottle, Blue",20
Quoted ==
  <<"N", "a", "m", "e", ",", "T", "i", "t", "l", "e", ",", "T", "o", "t",
    "a", "l", "\n", "#", "1", ",", "\"", "B", "o", "t", "t", "l", "e", ",",
    " ", "B", "l", "u", "e", "\"", ",", "2", "0", "\n">>

\* "Name","Total"\r
\* "#1","20"\r
QuotedAll ==
  <<"\"", "N", "a", "m", "e", "\"", ",", "\"", "T", "o", "t", "a", "l", "\"",
    "\r", "\n", "\"", "#", "1", "\"", ",", "\"", "2", "0", "\"", "\r", "\n">>

\* Name,Total
\* #1,20,extra
ExtraValue ==
  <<"N", "a", "m", "e", ",", "T", "o", "t", "a", "l", "\n", "#", "1", ",",
    "2", "0", ",", "e", "x", "t", "r", "a", "\n">>

\* Name,,Total
\* #1,x,20
EmptyHeader ==
  <<"N", "a", "m", "e", ",", ",", "T", "o", "t", "a", "l", "\n", "#", "1",
    ",", "x", ",", "2", "0", "\n">>

\* Name,Total
\* #1,50
TotalOnly ==
  <<"N", "a", "m", "e", ",", "T", "o", "t", "a", "l", "\n", "#", "1", ",",
    "5", "0", "\n">>

\* Name,Total price
\* #1,50
TotalPrice ==
  <<"N", "a", "m", "e", ",", "T", "o", "t", "a", "l", " ", "p", "r", "i",
    "c", "e", "\n", "#", "1", ",", "5", "0", "\n">>

\* Name,Created at,Total
\* #1,2023-10-05,50
CreatedAt ==
  <<"N", "a", "m", "e", ",", "C", "r", "e", "a", "t", "e", "d", " ", "a",
    "t", ",", "T", "o", "t", "a", "l", "\n", "#", "1", ",", "2", "0", "2",
    "3", "-", "1", "0", "-", "0", "5", ",", "5", "0", "\n">>

\* Name,Date,Total
\* #1,2023-10-05,50
DateAlias ==
  <<"N", "a", "m", "e", ",", "D", "a", "t", "e", ",", "T", "o", "t", "a",
    "l", "\n", "#", "1", ",", "2", "0", "2", "3", "-", "1", "0", "-", "0",
    "5", ",", "5", "0", "\n">>

\* Name,Note,Total,Vendor
\* #1,hi,50,Acme
OtherColumns ==
  <<"N", "a", "m", "e", ",", "N", "o", "t", "e", ",", "T", "o", "t", "a",
    "l", ",", "V", "e", "n", "d", "o", "r", "\n", "#", "1", ",", "h", "i",
    ",", "5", "0", ",", "A", "c", "m", "e", "\n">>

\* Date,Amount Spent
\* 2023-10-01,40
AmountSpent ==
  <<"D", "a", "t", "e", ",", "A", "m", "o", "u", "n", "t", " ", "S", "p",
    "e", "n", "t", "\n", "2", "0", "2", "3", "-", "1", "0", "-", "0", "1",
    ",", "4", "0", "\n">>

\* Date,Spend
\* 2023-10-01,40
SpendAlias ==
  <<"D", "a", "t", "e", ",", "S", "p", "e", "n", "d", "\n", "2", "0", "2",
    "3", "-", "1", "0", "-", "0", "1", ",", "4", "0", "\n">>

\* Date,Reach,Amount Spent
\* 2023-10-01,9,40
AdsOtherColumns ==
  <<"D", "a", "t", "e", ",", "R", "e", "a", "c", "h", ",", "A", "m", "o",
    "u", "n", "t", " ", "S", "p", "e", "n", "t", "\n", "2", "0", "2", "3",
    "-", "1", "0", "-", "0", "1", ",", "9", ",", "4", "0", "\n">>

\* Name,Total
\* #r1,-456.44
\* #r2,0.94
Refunds ==
  <<"N", "a", "m", "e", ",", "T", "o", "t", "a", "l", "\n", "#", "r", "1",
    ",", "-", "4", "5", "6", ".", "4", "4", "\n", "#", "r", "2", ",", "0",
    ".", "9", "4", "\n">>

\* A refund of the amount of the demo orders.
\* Name,Total
\* #r3,-455.5
RefundAll ==
  <<"N", "a", "m", "e", ",", "T", "o", "t", "a", "l", "\n", "#", "r", "3",
    ",", "-", "4", "5", "5", ".", "5", "\n">>

\* A refund of more than the demo orders.
\* Name,Total
\* #r4,-1000
BigRefund ==
  <<"N", "a", "m", "e", ",", "T", "o", "t", "a", "l", "\n", "#", "r", "4",
    ",", "-", "1", "0", "0", "0", "\n">>

\* Date,Amount Spent
\* 2023-10-01,-5
AdsCredit ==
  <<"D", "a", "t", "e", ",", "A", "m", "o", "u", "n", "t", " ", "S", "p",
    "e", "n", "t", "\n", "2", "0", "2", "3", "-", "1", "0", "-", "0", "1",
    ",", "-", "5", "\n">>

\* Orders whose dates are no dates: two integers, the name of a property of
\* Object.prototype, and a word.
\* Date,Total
\* 50,1
\* constructor,2
\* 7,3
\* abc,4
OddDates ==
  <<"D", "a", "t", "e", ",", "T", "o", "t", "a", "l", "\n", "5", "0", ",",
    "1", "\n", "c", "o", "n", "s", "t", "r", "u", "c", "t", "o", "r", ",",
    "2", "\n", "7", ",", "3", "\n", "a", "b", "c", ",", "4", "\n">>

\* Numbers written with an exponent, with three fraction digits and in
\* hexadecimal.
\* Total,Shipping,Quantity
\* 1e2,0.129,0x10
NumForms ==
  <<"T", "o", "t", "a", "l", ",", "S", "h", "i", "p", "p", "i", "n", "g",
    ",", "Q", "u", "a", "n", "t", "i", "t", "y", "\n", "1", "e", "2", ",",
    "0", ".", "1", "2", "9", ",", "0", "x", "1", "0", "\n">>

\* A column headed __proto__, a total between no-break spaces (U+00A0), a
\* quantity after U+FEFF, and a line of U+000B and U+1680, which is blank.
\* __proto__,Total,Quantity
\* "x,1", 5 , 2
OddSpaces ==
  <<"_", "_", "p", "r", "o", "t", "o", "_", "_", ",", "T", "o", "t", "a",
    "l", ",", "Q", "u", "a", "n", "t", "i", "t", "y", "\n", "\"", "x", ",",
    "1", "\"", ",", " ", "5", " ", ",", "﻿", "2", "\n", "", " ", "\n">>

\* The files of the parsing checks.
CsvFileNames ==
  {"NumBad", "NumShort", "NumGood", "NumPrefix", "NumAbsent", "AdsBad",
   "AdsAbsent", "AdsBothSpend", "Empty", "Blank",
   "BlankThenHeader", "HeaderOnly",
   "HeaderNoFeed", "Quoted", "QuotedAll", "ExtraValue", "EmptyHeader",
   "TotalOnly", "TotalPrice", "CreatedAt", "DateAlias", "OtherColumns",
   "AmountSpent", "SpendAlias", "AdsOtherColumns", "Refunds", "AdsCredit",
   "OddDates", "NumForms", "OddSpaces", "RefundAll", "BigRefund"}
FileNames == {"OrdersA", "AdsA", "SalesA", "SettlementA"} \cup CsvFileNames

\* event.target.result: the text of the file.
FileText(f) ==
  CASE f = "OrdersA" -> OrdersA
    [] f = "AdsA" -> AdsA
    [] f = "SalesA" -> SalesA
    [] f = "SettlementA" -> SettlementA
    [] f = "NumBad" -> NumBad
    [] f = "NumShort" -> NumShort
    [] f = "NumGood" -> NumGood
    [] f = "NumPrefix" -> NumPrefix
    [] f = "NumAbsent" -> NumAbsent
    [] f = "AdsBad" -> AdsBad
    [] f = "AdsAbsent" -> AdsAbsent
    [] f = "AdsBothSpend" -> AdsBothSpend
    [] f = "Empty" -> Empty
    [] f = "Blank" -> Blank
    [] f = "HeaderOnly" -> HeaderOnly
    [] f = "BlankThenHeader" -> BlankThenHeader
    [] f = "HeaderNoFeed" -> HeaderNoFeed
    [] f = "Quoted" -> Quoted
    [] f = "QuotedAll" -> QuotedAll
    [] f = "ExtraValue" -> ExtraValue
    [] f = "EmptyHeader" -> EmptyHeader
    [] f = "TotalOnly" -> TotalOnly
    [] f = "TotalPrice" -> TotalPrice
    [] f = "CreatedAt" -> CreatedAt
    [] f = "DateAlias" -> DateAlias
    [] f = "OtherColumns" -> OtherColumns
    [] f = "AmountSpent" -> AmountSpent
    [] f = "SpendAlias" -> SpendAlias
    [] f = "AdsOtherColumns" -> AdsOtherColumns
    [] f = "Refunds" -> Refunds
    [] f = "AdsCredit" -> AdsCredit
    [] f = "OddDates" -> OddDates
    [] f = "NumForms" -> NumForms
    [] f = "OddSpaces" -> OddSpaces
    [] f = "RefundAll" -> RefundAll
    [] f = "BigRefund" -> BigRefund

\* parseCSV(text) of each file, evaluated once.
ParsedFile == [f \in FileNames |-> parseCSV(FileText(f))]

\* The four ReportUploader inputs, each with the files picked in it.
UploadChoices ==
  { <<"shopify_orders", "OrdersA">>, <<"meta_ads", "AdsA">>,
    <<"shopify_sales", "SalesA">>, <<"settlement", "SettlementA">> }

\* Any of the parsing files picked in any of the four uploaders.
CsvChoices ==
  {"shopify_orders", "meta_ads", "shopify_sales", "settlement"} \X CsvFileNames

\* What is typed in the inputs of the Manual tab.
CategoryInputs == { <<"R", "e", "n", "t">> }

AmountInputs == { << >>, <<"5">> }

CostInputs == { << >>, <<"1", "0">> }

\* How generateContent ends: a response with text, a response without text,
\* or a failure of the request.
AiOutcomes == { "text", "no_text", "error" }

AiText == "- Insight"

\* ------------------------------------------------------------------------
\* State
\* ------------------------------------------------------------------------
VARIABLES
  orders,       \* ShopifyOrder[]
  ads,          \* MetaAdReport[]
  settlements,  \* SettlementReport[]
  expenses,     \* ManualExpense[]
  cogs,         \* ProductCOGS[]
  aiInsight,    \* string
  isAnalyzing,  \* boolean
  readers,      \* the FileReaders created by handleFileUpload, in order
  aiCalls       \* the analyzeData calls that have not returned

vars == <<orders, ads, settlements, expenses, cogs, aiInsight, isAnalyzing,
          readers, aiCalls>>

\* ------------------------------------------------------------------------
\* stats (App.tsx, useMemo over orders, ads, expenses, cogs, settlements)
\* ------------------------------------------------------------------------
\* The literal 0.03.
FeeRate == Nearest(3, 100)

\* cogs.find(c => c.sku === item.sku)?.cogs || 0
ItemCogs(cs, sku) ==
  IF \E i \in 1..Len(cs) : cs[i].sku = sku
  THEN LET first == CHOOSE i \in 1..Len(cs) :
                      /\ cs[i].sku = sku
                      /\ \A j \in 1..(i - 1) : cs[j].sku # sku
       IN  NumOr(cs[first].cogs, NumOf(0))
  ELSE NumOf(0)

\* A faulty variant of OrderCogs: the quantity is not multiplied in.
OrderCogs_IgnoresQuantity(cs, order, acc) ==
  SumNums(<<acc>> \o [k \in 1..Len(order.lineItems) |->
                        ItemCogs(cs, order.lineItems[k].sku)])

\* The inner forEach over one order: totalCogs += itemCogs * item.quantity
\* for each of its line items, from the totalCogs acc before it.
OrderCogs(cs, order, acc) ==
  SumNums(<<acc>> \o [k \in 1..Len(order.lineItems) |->
                        NumMul(ItemCogs(cs, order.lineItems[k].sku),
                               order.lineItems[k].quantity)])

\* The outer forEach, from totalCogs = 0.
RECURSIVE TotalCogs(_, _)
TotalCogs(os, cs) ==
  IF os = << >> THEN NumOf(0)
  ELSE OrderCogs(cs, os[Len(os)], TotalCogs(SubSeq(os, 1, Len(os) - 1), cs))

\* settlements.reduce((acc, curr) => acc + curr.fees, 0) || (totalSales * 0.03)
TotalFees(ss, totalSales) ==
  NumOr(SumNums([i \in 1..Len(ss) |-> ss[i].fees]), NumMul(totalSales, FeeRate))

\* A faulty variant of Roas: the division is not guarded.
Roas_Unguarded(totalSales, totalAdSpend) == NumDiv(totalSales, totalAdSpend)

\* totalAdSpend > 0 ? totalSales / totalAdSpend : 0
Roas(totalSales, totalAdSpend) ==
  Conditional(IsPositive(totalAdSpend), NumDiv(totalSales, totalAdSpend), NumOf(0))

\* A faulty variant of NetMargin: the division is not guarded.
NetMargin_Unguarded(netProfit, totalSales) ==
  NumMul(NumDiv(netProfit, totalSales), NumOf(100))

\* totalSales > 0 ? (netProfit / totalSales) * 100 : 0
NetMargin(netProfit, totalSales) ==
  Conditional(IsPositive(totalSales),
              NumMul(NumDiv(netProfit, totalSales), NumOf(100)), NumOf(0))

\* A faulty variant of Stats: the expenses are left out of the net profit.
Stats_WithoutExpenses(os, as, es, cs, ss) ==
  LET totalSales == SumNums([i \in 1..Len(os) |-> os[i].total])
      totalAdSpend == SumNums([i \in 1..Len(as) |-> as[i].spend])
      totalShipping == SumNums([i \in 1..Len(os) |-> os[i].shipping])
      totalCogs == TotalCogs(os, cs)
      totalFees == TotalFees(ss, totalSales)
      netProfit ==
        NumSub(NumSub(NumSub(NumSub(totalSales, totalAdSpend), totalCogs),
                      totalShipping), totalFees)
  IN  [ totalSales |-> totalSales,
        totalOrders |-> Len(os),
        totalAdSpend |-> totalAdSpend,
        totalCogs |-> totalCogs,
        totalShipping |-> totalShipping,
        totalFees |-> totalFees,
        netProfit |-> netProfit,
        roas |-> Roas(totalSales, totalAdSpend),
        netMargin |-> NetMargin(netProfit, totalSales) ]

Stats(os, as, es, cs, ss) ==
  LET totalSales == SumNums([i \in 1..Len(os) |-> os[i].total])
      totalAdSpend == SumNums([i \in 1..Len(as) |-> as[i].spend])
      totalShipping == SumNums([i \in 1..Len(os) |-> os[i].shipping])
      totalExpenses == SumNums([i \in 1..Len(es) |-> es[i].amount])
      totalCogs == TotalCogs(os, cs)
      totalFees == TotalFees(ss, totalSales)
      netProfit ==
        NumSub(NumSub(NumSub(NumSub(NumSub(totalSales, totalAdSpend), totalCogs),
                             totalShipping), totalExpenses), totalFees)
  IN  [ totalSales |-> totalSales,
        totalOrders |-> Len(os),
        totalAdSpend |-> totalAdSpend,
        totalCogs |-> totalCogs,
        totalShipping |-> totalShipping,
        totalFees |-> totalFees,
        netProfit |-> netProfit,
        roas |-> Roas(totalSales, totalAdSpend),
        netMargin |-> NetMargin(netProfit, totalSales) ]

stats == Stats(orders, ads, expenses, cogs, settlements)

\* ------------------------------------------------------------------------
\* chartData (App.tsx, useMemo over orders)
\* ------------------------------------------------------------------------
\* Days from 1970-01-01 to the day d of the month m of the year y of the
\* proleptic Gregorian calendar.
DaysFromCivil(y0, m, d) ==
  LET y == IF m <= 2 THEN y0 - 1 ELSE y0
      era == y \div 400
      yoe == y - era * 400
      mp == IF m > 2 THEN m - 3 ELSE m + 9
      doy == (153 * mp + 2) \div 5 + d - 1
      doe == yoe * 365 + yoe \div 4 - yoe \div 100 + doy
  IN  era * 146097 + doe - 719468

\* new Date(s).getTime() is NaN.
InvalidDate == [class |-> "NaN", day |-> 0, ms |-> 0]

\* A string outside the date-time string format of ECMAScript, one of that
\* format with a field out of its range or with the year -000000, or one
\* that is read in the local time zone: the engine hands the first two to
\* its own reading of dates (V8 reads 0001-13-29 as the 13th of January 2029
\* and -000000-01-01 as a day of 2001), and the time zone decides the
\* third.  The build decides whether it is a time and which, so the model
\* holds no value for it.
UnspecifiedDate == [class |-> "unspecified", day |-> 0, ms |-> 0]

\* new Date(s).getTime() as day and millisecond of the day, for the
\* date-time string format of ECMAScript: YYYY, YYYY-MM or YYYY-MM-DD (the
\* year also as a sign and six digits), alone (read as UTC) or followed by
\* THH:mm, THH:mm:ss or THH:mm:ss.sss and by Z or an offset +HH:mm or -HH:mm.
\* A time beyond the 100,000,000 days around 1970 is NaN.
DateTime(s) ==
  LET MsPerDay == 86400000
      signedYear == s # << >> /\ Head(s) \in {"+", "-"}
      yl == IF signedYear THEN 7 ELSE 4
      digitsAt(str, a, b) == b <= Len(str) /\ \A i \in a..b : IsDigit(str[i])
      num(str, a, b) == DigitsValue(SubSeq(str, a, b))
      hasYear == digitsAt(s, IF signedYear THEN 2 ELSE 1, yl)
      hasMonth == hasYear /\ Len(s) >= yl + 3 /\ s[yl + 1] = "-"
                  /\ digitsAt(s, yl + 2, yl + 3)
      hasDay == hasMonth /\ Len(s) >= yl + 6 /\ s[yl + 4] = "-"
                /\ digitsAt(s, yl + 5, yl + 6)
      dl == IF hasDay THEN yl + 6 ELSE IF hasMonth THEN yl + 3 ELSE yl
      t == SubSeq(s, dl + 1, Len(s))
      hasTime == Len(t) >= 6 /\ t[1] = "T" /\ digitsAt(t, 2, 3) /\ t[4] = ":"
                 /\ digitsAt(t, 5, 6)
      hasSec == hasTime /\ Len(t) >= 9 /\ t[7] = ":" /\ digitsAt(t, 8, 9)
      hasMs == hasSec /\ Len(t) >= 13 /\ t[10] = "." /\ digitsAt(t, 11, 13)
      tl == IF hasMs THEN 13 ELSE IF hasSec THEN 9 ELSE IF hasTime THEN 6 ELSE 0
      zone == SubSeq(t, tl + 1, Len(t))
      hasOffset == Len(zone) = 6 /\ zone[1] \in {"+", "-"} /\ digitsAt(zone, 2, 3)
                   /\ zone[4] = ":" /\ digitsAt(zone, 5, 6)
      wellFormed == hasYear /\ (t = << >> \/ (hasTime /\ (zone = << >> \/ zone = <<"Z">> \/ hasOffset)))
      yearMag == num(s, IF signedYear THEN 2 ELSE 1, yl)
      year == IF signedYear /\ Head(s) = "-" THEN 0 - yearMag ELSE yearMag
      month == IF hasMonth THEN num(s, yl + 2, yl + 3) ELSE 1
      day == IF hasDay THEN num(s, yl + 5, yl + 6) ELSE 1
      hh == IF hasTime THEN num(t, 2, 3) ELSE 0
      mm == IF hasTime THEN num(t, 5, 6) ELSE 0
      ss == IF hasSec THEN num(t, 8, 9) ELSE 0
      sss == IF hasMs THEN num(t, 11, 13) ELSE 0
      offset == IF hasOffset
                THEN (IF zone[1] = "-" THEN 0 - 1 ELSE 1) * (num(zone, 2, 3) * 60 + num(zone, 5, 6))
                ELSE 0
      legal == /\ ~(signedYear /\ Head(s) = "-" /\ yearMag = 0)
               /\ month \in 1..12
               /\ day \in 1..31
               /\ hh \in 0..24 /\ mm \in 0..59 /\ ss \in 0..59
               /\ (hh = 24 => mm = 0 /\ ss = 0 /\ sss = 0)
               /\ (hasOffset => num(zone, 2, 3) \in 0..23 /\ num(zone, 5, 6) \in 0..59)
      daysInMonth ==
        IF month = 2
        THEN (IF year % 4 = 0 /\ (year % 100 # 0 \/ year % 400 = 0) THEN 29 ELSE 28)
        ELSE IF month \in {4, 6, 9, 11} THEN 30 ELSE 31
      msOfDay == ((hh * 60 + mm) * 60 + ss) * 1000 + sss - offset * 60000
      days == DaysFromCivil(year, month, day) + msOfDay \div MsPerDay
      inRange == /\ days >= 0 - 100000000
                 /\ (days < 100000000 \/ (days = 100000000 /\ msOfDay % MsPerDay = 0))
  IN  IF ~wellFormed \/ ~legal THEN UnspecifiedDate
      ELSE IF day > daysInMonth THEN UnspecifiedDate
      ELSE IF hasTime /\ zone = << >> THEN UnspecifiedDate
      ELSE IF ~inRange THEN InvalidDate
      ELSE [class |-> "time", day |-> days, ms |-> msOfDay % MsPerDay]

\* The names dailyData inherits from Object.prototype: dailyData[name] is
\* a function (or Object.prototype itself), which is truthy.
ObjectPrototypeKeys ==
  { <<"c", "o", "n", "s", "t", "r", "u", "c", "t", "o", "r">>,
    <<"_", "_", "d", "e", "f", "i", "n", "e", "G", "e", "t", "t", "e", "r",
      "_", "_">>,
    <<"_", "_", "d", "e", "f", "i", "n", "e", "S", "e", "t", "t", "e", "r",
      "_", "_">>,
    <<"h", "a", "s", "O", "w", "n", "P", "r", "o", "p", "e", "r", "t", "y">>,
    <<"_", "_", "l", "o", "o", "k", "u", "p", "G", "e", "t", "t", "e", "r",
      "_", "_">>,
    <<"_", "_", "l", "o", "o", "k", "u", "p", "S", "e", "t", "t", "e", "r",
      "_", "_">>,
    <<"i", "s", "P", "r", "o", "t", "o", "t", "y", "p", "e", "O", "f">>,
    <<"p", "r", "o", "p", "e", "r", "t", "y", "I", "s", "E", "n", "u", "m",
      "e", "r", "a", "b", "l", "e">>,
    <<"t", "o", "S", "t", "r", "i", "n", "g">>,
    <<"v", "a", "l", "u", "e", "O", "f">>,
    sProto,
    <<"t", "o", "L", "o", "c", "a", "l", "e", "S", "t", "r", "i", "n", "g">> }

\* The loop body over one order.  With a date that names a property of
\* Object.prototype, dailyData[o.date] is there already: no bucket is
\* created and the additions go to the inherited object.  Otherwise the
\* bucket of o.date is created if there is none, and the order added to it.
AddToDaily(daily, o) ==
  IF o.date \in ObjectPrototypeKeys THEN daily
  ELSE IF \E i \in 1..Len(daily) : daily[i].date = o.date
  THEN [i \in 1..Len(daily) |->
          IF daily[i].date = o.date
          THEN [daily[i] EXCEPT !.sales = NumAdd(@, o.total), !.orders = @ + 1]
          ELSE daily[i]]
  ELSE Append(daily, [date |-> o.date, sales |-> NumAdd(NumOf(0), o.total),
                      orders |-> 1])

\* dailyData after the loop: its own properties in the order of their
\* creation.
RECURSIVE DailyData(_)
DailyData(os) ==
  IF os = << >> THEN << >>
  ELSE AddToDaily(DailyData(SubSeq(os, 1, Len(os) - 1)), os[Len(os)])

\* a < b for two strings of digits of the same length.
RECURSIVE DigitsLess(_, _)
DigitsLess(a, b) ==
  /\ a # << >>
  /\ \/ DigitVal(Head(a)) < DigitVal(Head(b))
     \/ Head(a) = Head(b) /\ DigitsLess(Tail(a), Tail(b))

\* a < b for two canonical numeric strings.
IndexLess(a, b) == Len(a) < Len(b) \/ (Len(a) = Len(b) /\ DigitsLess(a, b))

\* An array index: the canonical numeric string of an integer from 0 to
\* 2^32 - 2.
IsArrayIndex(s) ==
  /\ s # << >>
  /\ \A i \in 1..Len(s) : IsDigit(s[i])
  /\ s = <<"0">> \/ Head(s) # "0"
  /\ LET max == <<"4", "2", "9", "4", "9", "6", "7", "2", "9", "4">>
     IN  s = max \/ IndexLess(s, max)

\* Object.values(dailyData): the buckets whose date is an array index come
\* first, in ascending numeric order, then the others in the order of their
\* creation.
ObjectValues(daily) ==
  LET isIndex(b) == IsArrayIndex(b.date)
      isName(b) == ~IsArrayIndex(b.date)
      indexed == SelectSeq(daily, isIndex)
      rank(i) == 1 + Cardinality({j \in 1..Len(indexed) :
                                    IndexLess(indexed[j].date, indexed[i].date)})
      place(k) == CHOOSE i \in 1..Len(indexed) : rank(i) = k
  IN  [k \in 1..Len(indexed) |-> indexed[place(k)]] \o SelectSeq(daily, isName)

\* The comparator new Date(a.date).getTime() - new Date(b.date).getTime(),
\* by its sign; a NaN result is read as 0 by sort.
CompareDates(a, b) ==
  LET ta == DateTime(a.date)
      tb == DateTime(b.date)
  IN  IF ta.class # "time" \/ tb.class # "time" THEN 0
      ELSE IF ta.day # tb.day THEN ta.day - tb.day ELSE ta.ms - tb.ms

\* Array.prototype.sort is stable: b goes after the elements not greater.
RECURSIVE InsertSorted(_, _)
InsertSorted(sorted, b) ==
  IF sorted = << >> THEN <<b>>
  ELSE IF CompareDates(Head(sorted), b) > 0 THEN <<b>> \o sorted
  ELSE <<Head(sorted)>> \o InsertSorted(Tail(sorted), b)

\* The sort of buckets whose comparator is consistent.
RECURSIVE StableSort(_)
StableSort(bs) ==
  IF bs = << >> THEN << >>
  ELSE InsertSorted(StableSort(SubSeq(bs, 1, Len(bs) - 1)), bs[Len(bs)])

\* The comparator is a consistent comparator for the buckets: every date is
\* one the format specifies, and either none reads NaN or the times that
\* are read are all the same (a NaN compares as equal to every time, so two
\* different times beside it are not ordered consistently).
ConsistentComparator(bs) ==
  LET times == {DateTime(bs[i].date) : i \in 1..Len(bs)}
  IN  /\ UnspecifiedDate \notin times
      /\ InvalidDate \notin times \/ Cardinality(times \ {InvalidDate}) <= 1

\* bs.sort(comparator): the arrays the sort may leave.  With a consistent
\* comparator that is the stable sort; otherwise the order is the one the
\* build's sort makes of it, some permutation of the buckets.
SortByDate(bs) ==
  LET n == Len(bs)
      perms == {f \in [1..n -> 1..n] : \A i, j \in 1..n : f[i] = f[j] => i = j}
  IN  IF n <= 1 \/ ConsistentComparator(bs) THEN {StableSort(bs)}
      ELSE {[i \in 1..n |-> bs[f[i]]] : f \in perms}

\* The arrays chartData may hold for these orders.
ChartData(os) == SortByDate(ObjectValues(DailyData(os)))

chartData == ChartData(orders)

\* ------------------------------------------------------------------------
\* handleFileUpload and the reader's onload callback
\* ------------------------------------------------------------------------
\* One row of an orders report; idx is the row's index, from 0.
MappedOrder(row, idx) ==
  [ id |-> StrOr(Field(row, <<"I", "d">>),
                 StrOr(Field(row, hName), NatToString(idx))),
    name |-> StrOr(Field(row, hName),
                   <<"O", "r", "d", "e", "r", "-">> \o NatToString(idx)),
    date |-> StrOr(Field(row, hCreatedAt), StrOr(Field(row, hDate), Today)),
    total |-> NumOr(ParseFloat(Field(row, hTotal)), NumOf(0)),
    subtotal |-> NumOr(ParseFloat(Field(row, hSubtotal)), NumOf(0)),
    tax |-> NumOr(ParseFloat(Field(row, hTax)), NumOf(0)),
    shipping |-> NumOr(ParseFloat(Field(row, hShipping)), NumOf(0)),
    status |-> StrOr(Field(row, <<"S", "t", "a", "t", "u", "s">>), sPaid),
    lineItems |->
      << [ sku |-> StrOr(Field(row, hSKU), <<"U", "N", "K", "N", "O", "W", "N">>),
           title |-> StrOr(Field(row, hTitle),
                           <<"P", "r", "o", "d", "u", "c", "t">>),
           quantity |-> NumOr(ParseInt(Field(row, hQuantity)), NumOf(1)),
           price |-> NumOr(ParseFloat(Field(row, hPrice)), NumOf(0)) ] >> ]

\* A faulty variant of MappedOrders: a row whose Total does not parse is
\* dropped.
MappedOrders_DropsUnparsedRows(data) ==
  LET parses(row) == ~IsNaN(ParseFloat(Field(row, hTotal)))
      kept == SelectSeq(data, parses)
  IN  [r \in 1..Len(kept) |-> MappedOrder(kept[r], r - 1)]

MappedOrders(data) == [r \in 1..Len(data) |-> MappedOrder(data[r], r - 1)]

\* One row of an ads report.
MappedAd(row) ==
  [ date |-> StrOr(Field(row, hDate), Today),
    campaignName |->
      StrOr(Field(row, <<"C", "a", "m", "p", "a", "i", "g", "n", " ", "N", "a",
                         "m", "e">>),
            <<"U", "n", "k", "n", "o", "w", "n">>),
    spend |-> NumOr(ParseFloat(Field(row, hAmountSpent)),
                    NumOr(ParseFloat(Field(row, hSpend)), NumOf(0))),
    impressions |-> NumOr(ParseInt(Field(row, hImpressions)), NumOf(0)),
    clicks |-> NumOr(ParseInt(Field(row, hClicks)), NumOf(0)) ]

MappedAds(data) == [r \in 1..Len(data) |-> MappedAd(data[r])]

\* A faulty variant of OrdersAfterUpload: the rows of a sales report are
\* appended as orders.
OrdersAfterUpload_SalesAppended(prev, type, data) ==
  IF type \in {"shopify_orders", "shopify_sales"} THEN prev \o MappedOrders(data)
  ELSE prev

\* A faulty variant of OrdersAfterUpload: the rows are appended to the orders
\* held when the dashboard opened, not to the orders held now.
OrdersAfterUpload_StaleOrders(prev, type, data) ==
  IF type = "shopify_orders" THEN MOCK_ORDERS \o MappedOrders(data) ELSE prev

\* A faulty variant of OrdersAfterUpload: a sales report replaces the orders by its
\* rows.
OrdersAfterUpload_SalesReplaceOrders(prev, type, data) ==
  IF type = "shopify_orders" THEN prev \o MappedOrders(data)
  ELSE IF type = "shopify_sales" THEN MappedOrders(data)
  ELSE prev

\* setOrders(prev => [...prev, ...mappedOrders]), for the orders uploader only.
OrdersAfterUpload(prev, type, data) ==
  IF type = "shopify_orders" THEN prev \o MappedOrders(data) ELSE prev

\* setAds(prev => [...prev, ...mappedAds]), for the ads uploader only.
AdsAfterUpload(prev, type, data) ==
  IF type = "meta_ads" THEN prev \o MappedAds(data) ELSE prev

\* A faulty variant of SettlementsAfterUpload: the settlement rows are stored, with
\* their fees.
SettlementsAfterUpload_Stored(prev, type, data) ==
  IF type = "settlement"
  THEN prev \o [r \in 1..Len(data) |->
                  [orderName |-> Field(data[r], <<"O", "r", "d", "e", "r">>),
                   amountReceived |-> NumOf(0),
                   fees |-> NumOr(ParseFloat(Field(data[r], <<"F", "e", "e", "s">>)), NumOf(0)),
                   status |-> "settled"]]
  ELSE prev

\* onload has no branch for the settlement uploader (nor for the sales
\* uploader): setSettlements is never called.
SettlementsAfterUpload(prev, type, data) == prev

\* A file is picked in the uploader of `type`: a FileReader starts reading.
handleFileUpload(type, file) ==
  /\ Len(readers) < MaxUploads
  /\ readers' = Append(readers, [type |-> type, file |-> file, readyState |-> "LOADING"])
  /\ UNCHANGED <<orders, ads, settlements, expenses, cogs, aiInsight, isAnalyzing, aiCalls>>

\* reader.onload of the i-th reader: the text is parsed and, for the orders
\* and the ads uploader, mapped and appended.
onload(i) ==
  /\ i \in 1..Len(readers)
  /\ readers[i].readyState = "LOADING"
  /\ LET data == ParsedFile[readers[i].file]
     IN  /\ orders' = OrdersAfterUpload(orders, readers[i].type, data)
         /\ ads' = AdsAfterUpload(ads, readers[i].type, data)
         /\ settlements' = SettlementsAfterUpload(settlements, readers[i].type, data)
  /\ readers' = [readers EXCEPT ![i].readyState = "DONE"]
  /\ UNCHANGED <<expenses, cogs, aiInsight, isAnalyzing, aiCalls>>

\* ------------------------------------------------------------------------
\* The Manual tab: expenses and the cost table
\* ------------------------------------------------------------------------
\* A reading of the clock that no expense of the list carries as its id.
FreshId(es) ==
  CHOOSE n \in 1..(Len(es) + 1) :
    /\ \A i \in 1..Len(es) : es[i].id # n
    /\ \A m \in 1..(n - 1) : \E i \in 1..Len(es) : es[i].id = m

\* Date.now() at a click on Add Expense, of which only the identity is
\* read.  The clock does not go back and the expenses are held in the order
\* of their clicks: the reading is the millisecond of the last expense of
\* the list, which carries it as its id, or a later one.
DateNow(es) ==
  (IF es = << >> THEN {} ELSE {es[Len(es)].id}) \cup {FreshId(es)}

addExpense(now) ==
  /\ Len(expenses) < MaxExpenses
  /\ expenses' = Append(expenses, [id |-> now, category |-> sTools,
                                   amount |-> NumOf(0), note |-> << >>])
  /\ UNCHANGED <<orders, ads, settlements, cogs, aiInsight, isAnalyzing, readers, aiCalls>>

\* The category input of row idx: newExp[idx].category = e.target.value
setExpenseCategory(idx, value) ==
  /\ idx \in 1..Len(expenses)
  /\ expenses' = [expenses EXCEPT ![idx].category = value]
  /\ UNCHANGED <<orders, ads, settlements, cogs, aiInsight, isAnalyzing, readers, aiCalls>>

\* The amount input of row idx: newExp[idx].amount = parseFloat(e.target.value) || 0
setExpenseAmount(idx, value) ==
  /\ idx \in 1..Len(expenses)
  /\ expenses' = [expenses EXCEPT ![idx].amount = NumOr(ParseFloat(value), NumOf(0))]
  /\ UNCHANGED <<orders, ads, settlements, cogs, aiInsight, isAnalyzing, readers, aiCalls>>

\* expenses.filter(e => e.id !== exp.id)
removeExpense(idx) ==
  /\ idx \in 1..Len(expenses)
  /\ expenses' = LET keep(e) == e.id # expenses[idx].id IN SelectSeq(expenses, keep)
  /\ UNCHANGED <<orders, ads, settlements, cogs, aiInsight, isAnalyzing, readers, aiCalls>>

\* A faulty variant of CogsAfterEdit: the cost is written to every entry.
CogsAfterEdit_EveryEntry(cs, idx, value) ==
  [k \in 1..Len(cs) |-> [cs[k] EXCEPT !.cogs = NumOr(ParseFloat(value), NumOf(0))]]

\* newCogs[idx].cogs = parseFloat(e.target.value) || 0
CogsAfterEdit(cs, idx, value) ==
  [cs EXCEPT ![idx].cogs = NumOr(ParseFloat(value), NumOf(0))]

setCogsOf(idx, value) ==
  /\ idx \in 1..Len(cogs)
  /\ cogs' = CogsAfterEdit(cogs, idx, value)
  /\ UNCHANGED <<orders, ads, settlements, expenses, aiInsight, isAnalyzing, readers, aiCalls>>

\* ------------------------------------------------------------------------
\* The AI panel
\* ------------------------------------------------------------------------
\* A faulty variant of analyzeData: the failure of the request is not caught.
analyzeData_NoCatch(outcome) ==
  CASE outcome = "text" -> [raised |-> FALSE, value |-> <<AiText>>]
    [] outcome = "no_text" -> [raised |-> FALSE, value |-> << >>]
    [] outcome = "error" -> [raised |-> TRUE, value |-> << >>]

\* GeminiService.analyzeData, from the outcome of generateContent: what it
\* returns (value: <<text>>, or << >> for undefined) or that it raised.
analyzeData(outcome) ==
  CASE outcome = "text" -> [raised |-> FALSE, value |-> <<AiText>>]
    [] outcome = "no_text" -> [raised |-> FALSE, value |-> << >>]
    [] outcome = "error" -> [raised |-> FALSE, value |-> <<FailureMessage>>]

\* A faulty variant of runAiAnalysis: the button is not disabled while
\* isAnalyzing (a second click is taken while one request is outstanding).
runAiAnalysis_NotDisabled ==
  /\ Len(aiCalls) < 2
  /\ isAnalyzing' = TRUE
  /\ aiCalls' = Append(aiCalls, "pending")
  /\ UNCHANGED <<orders, ads, settlements, expenses, cogs, aiInsight, readers>>

\* The button is disabled while isAnalyzing; a click sends the request and
\* runAiAnalysis waits for analyzeData.
runAiAnalysis ==
  /\ ~isAnalyzing
  /\ isAnalyzing' = TRUE
  /\ aiCalls' = Append(aiCalls, "pending")
  /\ UNCHANGED <<orders, ads, settlements, expenses, cogs, aiInsight, readers>>

RemoveAt(s, i) == SubSeq(s, 1, i - 1) \o SubSeq(s, i + 1, Len(s))

\* generateContent of the i-th call ends with `outcome`, analyzeData returns
\* and runAiAnalysis resumes after its await: setAiInsight(insight || ''),
\* setIsAnalyzing(false).  Were analyzeData to raise, runAiAnalysis would end
\* at the await and set nothing.
runAiAnalysisResumes(i, outcome) ==
  /\ i \in 1..Len(aiCalls)
  /\ LET insight == analyzeData(outcome)
     IN  IF insight.raised
         THEN UNCHANGED <<aiInsight, isAnalyzing>>
         ELSE /\ aiInsight' = IF insight.value = << >> THEN "" ELSE insight.value[1]
              /\ isAnalyzing' = FALSE
  /\ aiCalls' = RemoveAt(aiCalls, i)
  /\ UNCHANGED <<orders, ads, settlements, expenses, cogs, readers>>

\* ------------------------------------------------------------------------
\* Specification
\* ------------------------------------------------------------------------
Init ==
  /\ orders = MOCK_ORDERS
  /\ ads = << >>
  /\ settlements = << >>
  /\ expenses = << >>
  /\ cogs = InitialCogs
  /\ aiInsight = ""
  /\ isAnalyzing = FALSE
  /\ readers = << >>
  /\ aiCalls = << >>

Next ==
  \/ \E u \in UploadChoices : handleFileUpload(u[1], u[2])
  \/ \E i \in 1..Len(readers) : onload(i)
  \/ \E now \in DateNow(expenses) : addExpense(now)
  \/ \E idx \in 1..Len(expenses), v \in CategoryInputs : setExpenseCategory(idx, v)
  \/ \E idx \in 1..Len(expenses), v \in AmountInputs : setExpenseAmount(idx, v)
  \/ \E idx \in 1..Len(expenses) : removeExpense(idx)
  \/ \E idx \in 1..Len(cogs), v \in CostInputs : setCogsOf(idx, v)
  \/ runAiAnalysis
  \/ \E i \in 1..Len(aiCalls), o \in AiOutcomes : runAiAnalysisResumes(i, o)

Spec == Init /\ [][Next]_vars

\* ------------------------------------------------------------------------
\* The aggregator on its own: stats over collections drawn from bounded
\* sets, and the edits of the Manual tab.
\* ------------------------------------------------------------------------
\* The orders the dashboard holds at its start and after the upload of one
\* orders report: the demo orders, alone and followed by the orders of a
\* report, by refunds that cancel them to the cent (in one row, whose double
\* cancels them exactly, and in two rows, whose doubles do not), and by a
\* refund of more than their amount.
OrderInputs ==
  { MOCK_ORDERS \o MappedOrders(ParsedFile[f]) :
      f \in {"Empty", "OrdersA", "RefundAll", "Refunds", "BigRefund"} }

\* No ad report, the reports of an upload, a report without spend, and a
\* credit (negative spend).
AdInputs ==
  { << >>, MappedAds(ParsedFile["AdsA"]),
    <<[date |-> d20231001, campaignName |-> <<"U", "n", "k", "n", "o", "w", "n">>,
       spend |-> NumOf(0), impressions |-> NumOf(0), clicks |-> NumOf(0)]>>,
    MappedAds(ParsedFile["AdsCredit"]) }

\* No expense, and two expenses added within one millisecond, which carry
\* the same id.
ExpenseInputs ==
  { << >>,
    << [id |-> 1, category |-> sTools, amount |-> NumOf(5), note |-> << >>],
       [id |-> 1, category |-> sTools, amount |-> NumOf(0), note |-> << >>] >> }

InitStats ==
  /\ orders \in OrderInputs
  /\ ads \in AdInputs
  /\ settlements = << >>
  /\ expenses \in ExpenseInputs
  /\ cogs = InitialCogs
  /\ aiInsight = ""
  /\ isAnalyzing = FALSE
  /\ readers = << >>
  /\ aiCalls = << >>

NextStats ==
  \/ \E now \in DateNow(expenses) : addExpense(now)
  \/ \E idx \in 1..Len(expenses), v \in CategoryInputs : setExpenseCategory(idx, v)
  \/ \E idx \in 1..Len(expenses), v \in AmountInputs : setExpenseAmount(idx, v)
  \/ \E idx \in 1..Len(expenses) : removeExpense(idx)
  \/ \E idx \in 1..Len(cogs), v \in CostInputs : setCogsOf(idx, v)

SpecStats == InitStats /\ [][NextStats]_vars

\* ------------------------------------------------------------------------
\* The upload of one file on its own: parseCSV and the mapping of its rows
\* ------------------------------------------------------------------------
\* One of the parsing files is picked, in a dashboard that has read no file.
pickCsv(type, file) ==
  /\ readers = << >>
  /\ handleFileUpload(type, file)

NextCsv ==
  \/ \E c \in CsvChoices : pickCsv(c[1], c[2])
  \/ \E i \in 1..Len(readers) : onload(i)

SpecCsv == Init /\ [][NextCsv]_vars

\* ------------------------------------------------------------------------
\* Properties
\* ------------------------------------------------------------------------
\* The sum of the numbers f holds over its domain, in some order.
RECURSIVE SumFn(_)
SumFn(f) ==
  IF DOMAIN f = {} THEN NumOf(0)
  ELSE LET x == CHOOSE x \in DOMAIN f : TRUE
       IN  NumAdd(f[x], SumFn([y \in (DOMAIN f) \ {x} |-> f[y]]))

\* Two numbers of the same value: the same fraction, whatever the bound of
\* the rounding error (which the order of the additions changes).
SameValue(a, b) == a.n = b.n /\ a.d = b.d

Range(seq) == {seq[i] : i \in 1..Len(seq)}

SalesRecordsOf(data) ==
  [r \in 1..Len(data) |->
     [date |-> Field(data[r], <<"D", "a", "y">>),
      totalSales |->
        NumOr(ParseFloat(Field(data[r], <<"T", "o", "t", "a", "l", " ", "s", "a",
                                          "l", "e", "s">>)),
              NumOf(0))]]

RECURSIVE SalesRecordsUpTo(_)
SalesRecordsUpTo(n) ==
  IF n = 0 THEN << >>
  ELSE SalesRecordsUpTo(n - 1) \o
       (IF readers[n].type = "shopify_sales" /\ readers[n].readyState = "DONE"
        THEN SalesRecordsOf(ParsedFile[readers[n].file]) ELSE << >>)

UploadedSalesRecords == SalesRecordsUpTo(Len(readers))

SalesUploadDone ==
  \E i \in 1..Len(readers) :
    readers[i].type = "shopify_sales" /\ readers[i].readyState = "DONE"

\* C1 (as claimed).  Revenue source selection: when at least one sales record
\* exists, stats.totalSales is the sum of totalSales over the sales records
\* and the orders' totals are not added; otherwise it is the sum of total
\* over the orders.  (Stated for the date range that holds every date.)
C1_RevenueSourceSelection ==
  IF UploadedSalesRecords # << >>
  THEN stats.totalSales =
         SumNums([i \in 1..Len(UploadedSalesRecords) |-> UploadedSalesRecords[i].totalSales])
  ELSE stats.totalSales = SumNums([i \in 1..Len(orders) |-> orders[i].total])

\* The days a date range is chosen from: around the dates of the demo orders.
RangeDays == (DateTime(d20231001).day - 1)..(DateTime(d20231003).day + 1)

InDateRange(date, start, end) ==
  /\ DateTime(date).class = "time"
  /\ start <= DateTime(date).day
  /\ DateTime(date).day <= end

OrdersInRange(start, end) ==
  LET inRange(o) == InDateRange(o.date, start, end) IN SelectSeq(orders, inRange)

\* C2 (as claimed).  Date filtering: for every start and end day, the orders
\* counted in stats (totalOrders, totalSales, totalCogs) are exactly the
\* orders dated within [start, end], the boundary days included; with no
\* order in range totalOrders, totalSales, roas and netMargin are 0.
C2_DateFiltering ==
  \A start \in RangeDays, end \in RangeDays :
    start <= end =>
      LET counted == OrdersInRange(start, end)
      IN  /\ stats.totalOrders = Len(counted)
          /\ stats.totalSales = SumNums([i \in 1..Len(counted) |-> counted[i].total])
          /\ stats.totalCogs = TotalCogs(counted, cogs)
          /\ counted = << >> =>
               /\ stats.totalSales = NumOf(0)
               /\ stats.roas = NumOf(0)
               /\ stats.netMargin = NumOf(0)

\* C3.  Net profit is total sales minus ad spend minus cost-of-goods minus
\* shipping minus expenses minus fees, where ad spend is the sum of spend
\* over the ad reports and expenses the sum of amount over the whole expense
\* collection.
C3_NetProfit ==
  LET adSpend == SumNums([i \in 1..Len(ads) |-> ads[i].spend])
      allExpenses == SumNums([i \in 1..Len(expenses) |-> expenses[i].amount])
      s == stats
  IN  /\ s.totalAdSpend = adSpend
      /\ s.netProfit =
           NumSub(NumSub(NumSub(NumSub(NumSub(s.totalSales, adSpend), s.totalCogs),
                                s.totalShipping),
                         allExpenses),
                  s.totalFees)

\* C3 witness: ads and expenses with an amount are held, and the net profit
\* is negative.
C3_Witness ==
  /\ ads # << >>
  /\ \E i \in 1..Len(expenses) : expenses[i].amount.n > 0
  /\ stats.netProfit.n < 0

\* The line items of the counted orders, as <<order, item>> index pairs.
LineItems ==
  UNION {{<<i, k>> : k \in 1..Len(orders[i].lineItems)} : i \in 1..Len(orders)}

\* The unit cost of the cost-table entry with this SKU, 0 without one.
UnitCost(sku) ==
  IF \E c \in Range(cogs) : c.sku = sku
  THEN (CHOOSE c \in Range(cogs) : c.sku = sku).cogs
  ELSE NumOf(0)

\* C4.  Cost-of-goods is the sum over every line item of every counted order
\* of quantity times the unit cost of the cost-table entry with the same SKU;
\* a line item whose SKU has no entry contributes 0.
C4_CostOfGoods ==
  SameValue(stats.totalCogs,
            SumFn([p \in LineItems |->
                     NumMul(orders[p[1]].lineItems[p[2]].quantity,
                            UnitCost(orders[p[1]].lineItems[p[2]].sku))]))

\* C4 witness: an uploaded order carries a SKU without cost entry and one
\* with quantity above 1, and a unit cost has been edited.
C4_Witness ==
  /\ \E p \in LineItems :
       \A c \in Range(cogs) : c.sku # orders[p[1]].lineItems[p[2]].sku
  /\ \E p \in LineItems :
       /\ orders[p[1]].lineItems[p[2]].quantity.n > 1
       /\ UnitCost(orders[p[1]].lineItems[p[2]].sku).n > 0
  /\ cogs # InitialCogs
  /\ stats.totalCogs.n > 0

\* A shopify_sales upload completes in this step: sales records become
\* present.
SalesUploadCompletes ==
  \E i \in 1..Len(readers) :
    /\ readers[i].type = "shopify_sales"
    /\ readers[i].readyState = "LOADING"
    /\ readers'[i].readyState = "DONE"

\* C5.  Cost-of-goods does not depend on the revenue source: a step that
\* makes sales records present (a shopify_sales upload completes) leaves
\* stats.totalCogs as it is.
C5_CogsIndependentOfRevenueSource ==
  [][SalesUploadCompletes =>
       Stats(orders', ads', expenses', cogs', settlements').totalCogs = stats.totalCogs]_vars

\* C5 witness: sales records are present next to orders with a cost.
C5_Witness ==
  /\ SalesUploadDone
  /\ UploadedSalesRecords # << >>
  /\ Len(orders) > Len(MOCK_ORDERS)
  /\ stats.totalCogs.n > 0

\* C6 (as claimed).  roas is exactly 0 whenever the total ad spend is 0,
\* whatever the total sales; otherwise it is total sales divided by total ad
\* spend.
C6_RoasZeroOnlyAtZeroSpend ==
  LET s == stats
  IN  IF s.totalAdSpend = NumOf(0) THEN s.roas = NumOf(0)
      ELSE s.roas = NumDiv(s.totalSales, s.totalAdSpend)

\* C6 (amended).  roas is exactly 0 whenever the total ad spend is not
\* greater than 0 (zero, or negative as after an ad credit), whatever the
\* total sales; otherwise it is total sales divided by total ad spend.
C6_Roas ==
  LET s == stats
  IN  /\ IsPositive(s.totalAdSpend) = "true" =>
           s.roas = NumDiv(s.totalSales, s.totalAdSpend)
      /\ IsPositive(s.totalAdSpend) = "false" => s.roas = NumOf(0)

\* C6 witness: there are sales, the total ad spend is negative, and roas
\* is 0.
C6_Witness ==
  /\ stats.totalSales.n > 0
  /\ stats.totalAdSpend.n < 0
  /\ stats.roas = NumOf(0)

\* C7 (as claimed).  netMargin is exactly 0 whenever the total sales are 0,
\* also when the net profit is negative; otherwise it is
\* netProfit / totalSales * 100.
C7_NetMarginZeroOnlyAtZeroSales ==
  LET s == stats
  IN  IF s.totalSales = NumOf(0) THEN s.netMargin = NumOf(0)
      ELSE s.netMargin = NumMul(NumDiv(s.netProfit, s.totalSales), NumOf(100))

\* C7 (amended).  netMargin is exactly 0 whenever the total sales are not
\* greater than 0 (zero, or negative as after a refund), also when the net
\* profit is negative; otherwise it is netProfit / totalSales * 100.
C7_NetMargin ==
  LET s == stats
  IN  /\ IsPositive(s.totalSales) = "true" =>
           s.netMargin = NumMul(NumDiv(s.netProfit, s.totalSales), NumOf(100))
      /\ IsPositive(s.totalSales) = "false" => s.netMargin = NumOf(0)

\* C7 witness: the demo orders followed by a refund of more than their
\* amount give negative total sales; the net profit is negative, by an
\* expense as well, and the net margin is 0.
C7_Witness ==
  /\ Len(orders) > Len(MOCK_ORDERS)
  /\ SubSeq(orders, 1, Len(MOCK_ORDERS)) = MOCK_ORDERS
  /\ stats.totalSales.n < 0
  /\ \E i \in 1..Len(expenses) : expenses[i].amount.n > 0
  /\ stats.netProfit.n < 0
  /\ stats.netMargin = NumOf(0)

\* The total sales are exactly 0 and the net profit is negative because of
\* shipping, cost-of-goods and an expense: the net margin is 0.
ZeroSalesZeroMargin ==
  /\ stats.totalSales = NumOf(0)
  /\ \E i \in 1..Len(expenses) : expenses[i].amount.n > 0
  /\ stats.totalShipping.n > 0
  /\ stats.totalCogs.n > 0
  /\ stats.netProfit.n < 0
  /\ stats.netMargin = NumOf(0)

\* The totals of the orders cancel to the cent while their doubles need
\* not: the roundings decide totalSales > 0, and with it the net margin.
RoundingDecidesMargin ==
  /\ stats.totalSales.n = 0
  /\ IsPositive(stats.totalSales) = "either"
  /\ stats.netMargin = AnyNumber

\* C8.  Platform fees are 3% of the total sales after any sequence of
\* uploads and edits, uploads of a settlement report included: they are
\* never taken from settlement data.
C8_PlatformFees ==
  LET s == stats IN s.totalFees = NumMul(s.totalSales, FeeRate)

\* C8 witness: a settlement report with fees and an orders report have been
\* uploaded.
C8_Witness ==
  /\ \E i \in 1..Len(readers) :
       /\ readers[i].type = "settlement"
       /\ readers[i].readyState = "DONE"
       /\ \E r \in 1..Len(ParsedFile[readers[i].file]) :
            ~IsNaN(ParseFloat(Field(ParsedFile[readers[i].file][r],
                                    <<"F", "e", "e", "s">>)))
  /\ Len(orders) > Len(MOCK_ORDERS)
  /\ stats.totalFees.n > 0

\* The revenue records of the series: the sales records if there are any,
\* else the orders, each as [date, amount].
RevenueRecords ==
  IF UploadedSalesRecords # << >>
  THEN [i \in 1..Len(UploadedSalesRecords) |->
          [date |-> UploadedSalesRecords[i].date,
           amount |-> UploadedSalesRecords[i].totalSales]]
  ELSE [i \in 1..Len(orders) |-> [date |-> orders[i].date, amount |-> orders[i].total]]

\* `series` has one bucket per distinct date of `recs`, with the sum of the
\* amounts of that date, in ascending order of date.
IsSeriesOf(series, recs) ==
  /\ Len(series) = Cardinality({recs[i].date : i \in 1..Len(recs)})
  /\ \A i \in 1..Len(recs) :
       \E k \in 1..Len(series) :
         /\ series[k].date = recs[i].date
         /\ SameValue(series[k].sales,
                      SumFn([j \in {j \in 1..Len(recs) : recs[j].date = recs[i].date} |->
                               recs[j].amount]))
  /\ \A k \in 1..(Len(series) - 1) :
       /\ DateTime(series[k].date).class = "time"
       /\ DateTime(series[k + 1].date).class = "time"
       /\ CompareDates(series[k], series[k + 1]) < 0

\* C9 (as claimed).  The revenue series has exactly one bucket per distinct
\* date string among the counted revenue records (the sales records if there
\* are any, else the orders), each with the sum of the amounts of that date,
\* in ascending order of date.
C9_RevenueSeries == \A series \in chartData : IsSeriesOf(series, RevenueRecords)

\* The orders, each as [date, amount].
OrderRecords ==
  [i \in 1..Len(orders) |-> [date |-> orders[i].date, amount |-> orders[i].total]]

\* The part of C9 the code keeps: the series is that of the orders.
OrdersSeries == \A series \in chartData : IsSeriesOf(series, OrderRecords)

\* The i-th AI request fails in this step.
AiCallFails == \E i \in 1..Len(aiCalls) : runAiAnalysisResumes(i, "error")

\* C10.  A failure of the AI request is absorbed: analyzeData returns the
\* fixed failure string instead of raising, runAiAnalysis stores it as the
\* insight and sets isAnalyzing back to false, and the orders, ads, expenses,
\* cost table and stats are as before the failed call.
C10_AiFailureAbsorbed ==
  [][AiCallFails =>
       /\ analyzeData("error") = [raised |-> FALSE, value |-> <<FailureMessage>>]
       /\ aiInsight' = FailureMessage
       /\ isAnalyzing' = FALSE
       /\ Len(aiCalls') = Len(aiCalls) - 1
       /\ UNCHANGED <<orders, ads, expenses, cogs, settlements>>
       /\ Stats(orders', ads', expenses', cogs', settlements') = stats]_vars

\* C10 witness: a request has failed while data was held; the failure string
\* is shown and no analysis is running.
C10_Witness ==
  /\ aiInsight = FailureMessage
  /\ ~isAnalyzing
  /\ aiCalls = << >>
  /\ ads # << >>
  /\ expenses # << >>

\* ------------------------------------------------------------------------
\* Properties of the upload of one file (SpecCsv)
\* ------------------------------------------------------------------------
\* The rows of the file of the completed upload of this type, << >> when
\* there is none.
CompletedRows(type) ==
  IF \E i \in 1..Len(readers) :
       readers[i].type = type /\ readers[i].readyState = "DONE"
  THEN ParsedFile[readers[CHOOSE i \in 1..Len(readers) :
                            readers[i].type = type /\ readers[i].readyState = "DONE"].file]
  ELSE << >>

\* The CSV value is missing or unparseable: the row has no such column, or
\* the parser of the field (parseFloat where a fraction is allowed, parseInt
\* otherwise) finds no number at its start.
Unparseable(v, fraction) ==
  \/ v = Undefined
  \/ IsNaN(IF fraction THEN ParseFloat(v) ELSE ParseInt(v))

\* The numeric fields of the orders mapping, with their columns, without the
\* quantity.
OrderMoneyColumns ==
  { <<"total", hTotal>>, <<"subtotal", hSubtotal>>, <<"tax", hTax>>,
    <<"shipping", hShipping>> }

\* Numeric coercion with the default d for the quantity.
NumericCoercion(d) ==
  LET orows == CompletedRows("shopify_orders")
      arows == CompletedRows("meta_ads")
      first == Len(MOCK_ORDERS)
  IN  /\ Len(orders) = first + Len(orows)
      /\ Len(ads) = Len(arows)
      /\ \A r \in 1..Len(orows) :
           /\ \A c \in OrderMoneyColumns :
                Unparseable(Field(orows[r], c[2]), TRUE) => orders[first + r][c[1]] = NumOf(0)
           /\ Unparseable(Field(orows[r], hPrice), TRUE) =>
                orders[first + r].lineItems[1].price = NumOf(0)
           /\ Unparseable(Field(orows[r], hQuantity), FALSE) =>
                orders[first + r].lineItems[1].quantity = NumOf(d)
      /\ \A r \in 1..Len(arows) :
           /\ ( /\ Unparseable(Field(arows[r], hAmountSpent), TRUE)
                /\ Unparseable(Field(arows[r], hSpend), TRUE) ) => ads[r].spend = NumOf(0)
           /\ Unparseable(Field(arows[r], hImpressions), FALSE) => ads[r].impressions = NumOf(0)
           /\ Unparseable(Field(arows[r], hClicks), FALSE) => ads[r].clicks = NumOf(0)

\* C11 (as claimed).  Numeric coercion on upload: every numeric field of a
\* mapped order or ad (total, subtotal, tax, shipping, price, quantity;
\* spend, impressions, clicks) whose CSV value is missing or unparseable is
\* 0, and the row is still ingested.
C11_NumericCoercionToZero == NumericCoercion(0)

\* C11 (amended).  As claimed, except that a missing or unparseable quantity
\* is 1; the spend is 0 when neither Amount Spent nor Spend holds a number.
C11_NumericCoercion == NumericCoercion(1)

\* C11 witness: an orders file with a row of unparseable numbers has been
\* ingested, with total 0 and quantity 1.
C11_Witness ==
  LET orows == CompletedRows("shopify_orders")
  IN  \E r \in 1..Len(orows) :
        /\ Field(orows[r], hTotal) \notin {Undefined, << >>}
        /\ Unparseable(Field(orows[r], hTotal), TRUE)
        /\ Unparseable(Field(orows[r], hQuantity), FALSE)
        /\ orders[Len(MOCK_ORDERS) + r].total = NumOf(0)
        /\ orders[Len(MOCK_ORDERS) + r].lineItems[1].quantity = NumOf(1)

\* The files that hold no data row: no text, blank lines only, a header
\* line only (with and without line feed, and after a blank line).
NoDataFiles == {"Empty", "Blank", "HeaderOnly", "HeaderNoFeed", "BlankThenHeader"}

\* C12.  parseCSV returns an empty list, and does not raise, for empty text,
\* for text of blank lines only and for text with a header row and no data
\* row (so does the copy App does not import, with the header on the first
\* line); the upload of such a file appends no record to orders or ads.
C12_EmptyInput ==
  /\ \A f \in NoDataFiles : parseCSV(FileText(f)) = << >>
  /\ \A f \in NoDataFiles \ {"BlankThenHeader"} : parseCSV_part000(FileText(f)) = << >>
  /\ \A i \in 1..Len(readers) :
       (readers[i].readyState = "DONE" /\ readers[i].file \in NoDataFiles) =>
         orders = MOCK_ORDERS /\ ads = << >>

\* C12 witness: a file with a header row only has been read by the orders
\* uploader.
C12_Witness ==
  /\ \E i \in 1..Len(readers) :
       /\ readers[i].readyState = "DONE"
       /\ readers[i].type = "shopify_orders"
       /\ readers[i].file = "HeaderOnly"
  /\ orders = MOCK_ORDERS

\* The positions of the commas of `line` that are outside double quotes: an
\* even number of quotes stands before them.
OutsideCommas(line) ==
  {i \in 1..Len(line) :
     /\ line[i] = ","
     /\ Cardinality({j \in 1..(i - 1) : line[j] = "\""}) % 2 = 0}

\* The fields of `line`: the pieces between the commas outside quotes, each
\* without its quotes and trimmed.
QuotedFields(line) ==
  LET cs == OutsideCommas(line)
      n == Cardinality(cs)
      at(k) == IF k = 0 THEN 0
               ELSE IF k > n THEN Len(line) + 1
               ELSE CHOOSE i \in cs : Cardinality({j \in cs : j < i}) = k - 1
      notQuote(c) == c # "\""
  IN  [k \in 1..(n + 1) |->
         Trim(SelectSeq(SubSeq(line, at(k - 1) + 1, at(k) - 1), notQuote))]

\* The rows of `text` are those of its data lines: in each, the value of
\* every header (the last column of that name) is the field of the same
\* position, '' beyond the last field, and no key is not a header.  The
\* headers that name no property, '' and __proto__, are no keys.
RowsFollowQuotedFields(text) ==
  LET lines == SelectSeq(SplitLines(text), NonBlank)
      rows == parseCSV(text)
      hs == QuotedFields(lines[1])
  IN  lines # << >> =>
        /\ Len(rows) = Len(lines) - 1
        /\ \A r \in 1..Len(rows) :
             LET vs == QuotedFields(lines[r + 1])
             IN  /\ DOMAIN rows[r] \subseteq {hs[i] : i \in 1..Len(hs)}
                 /\ DOMAIN rows[r] \cap {<< >>, sProto} = {}
                 /\ \A i \in 1..Len(hs) :
                      (hs[i] \notin {<< >>, sProto}
                         /\ \A j \in (i + 1)..Len(hs) : hs[j] # hs[i]) =>
                        /\ hs[i] \in DOMAIN rows[r]
                        /\ rows[r][hs[i]] = IF i <= Len(vs) THEN vs[i] ELSE << >>

\* C13.  Quoted CSV fields: parseCSV splits every data line only at the
\* commas outside double quotes, so a quoted field with a comma is one value
\* (quotes removed) under its own header and the following columns stay
\* aligned; a row has only keys that are header names.
C13_QuotedFields ==
  \A i \in 1..Len(readers) :
    readers[i].readyState = "DONE" =>
      /\ RowsFollowQuotedFields(FileText(readers[i].file))
      /\ readers[i].file = "Quoted" =>
           /\ Field(parseCSV(Quoted)[1], hTitle) =
                <<"B", "o", "t", "t", "l", "e", ",", " ", "B", "l", "u", "e">>
           /\ Field(parseCSV(Quoted)[1], hTotal) = <<"2", "0">>

\* C13 witness: the file with the quoted "Bottle, Blue" has been read by the
\* orders uploader; the order has that title and the total of the column
\* after it.
C13_Witness ==
  /\ \E i \in 1..Len(readers) :
       /\ readers[i].readyState = "DONE"
       /\ readers[i].type = "shopify_orders"
       /\ readers[i].file = "Quoted"
  /\ Len(orders) = Len(MOCK_ORDERS) + 1
  /\ \E k \in 1..Len(orders[Len(orders)].lineItems[1].title) :
       orders[Len(orders)].lineItems[1].title[k] = ","
  /\ orders[Len(orders)].total = NumOf(20)

\* The file has been read by the uploader of this type.
Completed(type, file) ==
  \E i \in 1..Len(readers) :
    /\ readers[i].readyState = "DONE"
    /\ readers[i].type = type
    /\ readers[i].file = file

\* The order appended by the upload of a one-row orders file.
UploadedOrder == orders[Len(MOCK_ORDERS) + 1]

\* The order lists the aggregator is given on its own are held by the
\* dashboard after the upload of one orders report; after the refund of
\* more than the demo orders the total sales are negative and the net
\* margin is 0.
RefundsHeld ==
  /\ \A f \in {"Empty", "RefundAll", "Refunds", "BigRefund"} :
       Completed("shopify_orders", f) =>
         /\ orders = MOCK_ORDERS \o MappedOrders(ParsedFile[f])
         /\ orders \in OrderInputs
  /\ Completed("shopify_orders", "BigRefund") =>
       /\ stats.totalSales.n < 0
       /\ stats.netProfit.n < 0
       /\ stats.netMargin = NumOf(0)
       /\ ~C7_NetMarginZeroOnlyAtZeroSales

\* The numbers of an uploaded row are the doubles parseFloat and parseInt
\* read: 1e2 is 100, 0.129 keeps its third fraction digit, 0x10 is 16.
NumberFormsRead ==
  Completed("shopify_orders", "NumForms") =>
    /\ UploadedOrder.total = NumOf(100)
    /\ SameValue(UploadedOrder.shipping, Nearest(129, 1000))
    /\ UploadedOrder.lineItems[1].quantity = NumOf(16)

\* The white space trim, parseFloat and parseInt take off is more than the
\* space: the row of the file has the keys Total and Quantity only (the
\* column __proto__ sets no property, the line of U+000B and U+1680 is
\* blank), and its order has total 5 and quantity 2.
OddSpacesRead ==
  /\ DOMAIN ParsedFile["OddSpaces"][1] = {hTotal, hQuantity}
  /\ Completed("shopify_orders", "OddSpaces") =>
       /\ Len(orders) = Len(MOCK_ORDERS) + 1
       /\ UploadedOrder.total = NumOf(5)
       /\ UploadedOrder.lineItems[1].quantity = NumOf(2)

\* The series of orders whose dates are no dates: the order dated
\* constructor has no bucket, the bucket of 7 stands before that of 50 in
\* Object.values, and the sort may leave the buckets in any order.
OddDatesSeries ==
  Completed("shopify_orders", "OddDates") =>
    LET values == ObjectValues(DailyData(orders))
    IN  /\ Len(values) = Len(MOCK_ORDERS) + 3
        /\ \A k \in 1..Len(values) : values[k].date \notin ObjectPrototypeKeys
        /\ values[1].date = <<"7">>
        /\ values[2].date = <<"5", "0">>
        /\ values[Len(values)].date = <<"a", "b", "c">>
        /\ Cardinality(chartData) = 720

\* The aliases the mapping reads: the order date under Created at or Date,
\* the ad spend under Amount Spent or Spend; a column with another header
\* changes nothing in the mapped record.
AliasesRead ==
  /\ Completed("shopify_orders", "TotalOnly") => UploadedOrder.total = NumOf(50)
  /\ \A f \in {"CreatedAt", "DateAlias"} :
       Completed("shopify_orders", f) =>
         /\ UploadedOrder.date = <<"2", "0", "2", "3", "-", "1", "0", "-", "0", "5">>
         /\ UploadedOrder.total = NumOf(50)
  /\ \A f \in {"AmountSpent", "SpendAlias"} :
       Completed("meta_ads", f) => Len(ads) = 1 /\ ads[1].spend = NumOf(40)
  /\ Completed("shopify_orders", "OtherColumns") =>
       orders = MOCK_ORDERS \o MappedOrders(ParsedFile["TotalOnly"])
  /\ Completed("meta_ads", "AdsOtherColumns") =>
       ads = MappedAds(ParsedFile["AmountSpent"])

\* C14 (as claimed).  Header aliases: the order amount under the header
\* Total or under the header Total price is the mapped order's total in both
\* cases (likewise the ad spend under Amount Spent or Spend and the order
\* date under Created at or Date); a column with any other header does not
\* change the mapped record.
C14_HeaderAliases ==
  /\ AliasesRead
  /\ Completed("shopify_orders", "TotalPrice") => UploadedOrder.total = NumOf(50)

\* ------------------------------------------------------------------------
\* Properties of the cost table, of concurrent uploads and of the AI panel
\* ------------------------------------------------------------------------
\* The cost table holds at most one entry per SKU.
OneEntryPerSku ==
  \A i \in 1..Len(cogs), j \in 1..Len(cogs) : cogs[i].sku = cogs[j].sku => i = j

\* The cost that an input of the unit cost field stands for; an unparseable
\* input stands for 0.
WrittenCost(v) ==
  IF Unparseable(v, TRUE) THEN NumOf(0)
  ELSE IF v = <<"1", "0">> THEN NumOf(10)
  ELSE NumOf(0)

\* This step writes v as the unit cost of the idx-th entry and changes
\* nothing else.
CostEdited(idx, v) ==
  /\ Len(cogs') = Len(cogs)
  /\ \A k \in 1..Len(cogs) :
       /\ cogs'[k].sku = cogs[k].sku
       /\ cogs'[k].productName = cogs[k].productName
       /\ k # idx => cogs'[k].cogs = cogs[k].cogs
  /\ cogs'[idx].cogs = WrittenCost(v)
  /\ orders' = orders
  /\ ads' = ads
  /\ expenses' = expenses

\* C15.  The cost table holds at most one entry per SKU in every reachable
\* state; a step that changes it is the edit of one entry's unit cost: that
\* entry's cost becomes the value written (0 for an unparseable one), and the
\* set of SKUs, every other entry's cost, the orders, ads and expenses stay.
C15_CostTable ==
  /\ []OneEntryPerSku
  /\ [][cogs' # cogs =>
          \E idx \in 1..Len(cogs), v \in CostInputs : CostEdited(idx, v)]_vars
  /\ [][\A idx \in 1..Len(cogs), v \in CostInputs :
          setCogsOf(idx, v) => CostEdited(idx, v)]_vars

\* C15 witness: both costs have been edited, one with an unparseable input,
\* while orders, ads and an expense were held.
C15_Witness ==
  /\ cogs[1].cogs = NumOf(0)
  /\ cogs[2].cogs = NumOf(10)
  /\ Len(orders) > Len(MOCK_ORDERS)
  /\ ads # << >>
  /\ expenses # << >>

\* The uploads of this type whose callback has run.
DoneUploads(type) ==
  {i \in 1..Len(readers) : readers[i].type = type /\ readers[i].readyState = "DONE"}

\* The records the i-th upload appends.
MappedRows(i) ==
  IF readers[i].type = "shopify_orders" THEN MappedOrders(ParsedFile[readers[i].file])
  ELSE MappedAds(ParsedFile[readers[i].file])

\* `tail` is the mapped rows of the uploads S, upload after upload, in some
\* order of the uploads.
RECURSIVE RowsOfUploads(_, _)
RowsOfUploads(tail, S) ==
  IF S = {} THEN tail = << >>
  ELSE \E i \in S :
         LET m == MappedRows(i)
         IN  /\ Len(tail) >= Len(m)
             /\ SubSeq(tail, 1, Len(m)) = m
             /\ RowsOfUploads(SubSeq(tail, Len(m) + 1, Len(tail)), S \ {i})

\* C16.  No lost upload: whatever uploads are in flight and in whatever order
\* their callbacks run, the orders are the orders held at the start followed
\* by the mapped rows of every completed orders upload, and the ads
\* likewise; no upload removes or overwrites the records of another.
C16_NoLostUpload ==
  /\ Len(orders) >= Len(MOCK_ORDERS)
  /\ SubSeq(orders, 1, Len(MOCK_ORDERS)) = MOCK_ORDERS
  /\ RowsOfUploads(SubSeq(orders, Len(MOCK_ORDERS) + 1, Len(orders)),
                   DoneUploads("shopify_orders"))
  /\ RowsOfUploads(ads, DoneUploads("meta_ads"))

\* C16 witness: two uploads were in flight at once and both callbacks have
\* run: the records of the ads upload and of the orders upload are held.
C16_Witness ==
  /\ Len(readers) = 2
  /\ readers[1].readyState = "DONE"
  /\ readers[2].readyState = "DONE"
  /\ {readers[1].type, readers[2].type} = {"meta_ads", "shopify_orders"}
  /\ Len(orders) = Len(MOCK_ORDERS) + 2
  /\ Len(ads) = 1

\* Two uploads are in flight at once and the one picked second completes
\* first.
OverlappingUploads ==
  /\ Len(readers) = 2
  /\ readers[1].readyState = "LOADING"
  /\ readers[2].readyState = "DONE"
  /\ readers[1].type = "shopify_orders"
  /\ readers[2].type = "shopify_orders"
  /\ Len(orders) = Len(MOCK_ORDERS) + 2

\* C17.  At most one AI request is outstanding at any time: isAnalyzing is
\* true exactly while a request is outstanding (from the start of
\* runAiAnalysis until the request has returned or failed), and an analysis
\* starts only while isAnalyzing is false.
C17_OneAiRequest ==
  /\ [](Len(aiCalls) <= 1 /\ (isAnalyzing <=> aiCalls # << >>))
  /\ [][Len(aiCalls') > Len(aiCalls) => ~isAnalyzing /\ isAnalyzing']_vars

\* C17 witness: a second analysis is running after a first one has failed.
C17_Witness ==
  /\ isAnalyzing
  /\ Len(aiCalls) = 1
  /\ aiInsight = FailureMessage

\* The callback of the i-th upload, one of a sales or a settlement report,
\* runs in this step.
UnreadReportCompletes(i) ==
  /\ readers[i].type \in {"shopify_sales", "settlement"}
  /\ readers[i].readyState = "LOADING"
  /\ readers'[i].readyState = "DONE"

\* The stats and the revenue series after the step are those of the
\* collections held before it, stated apart from Stats and ChartData: the
\* orders counted and their totals summed are the orders held before (no row
\* of a sales report is among them), the ad spend is that of the ads held
\* before, the cost-of-goods that of the line items held before, the fees
\* are 3% of the total sales (no fee of a settlement report), the net profit
\* is what they leave, and the series is that of the orders held before.
AggregatesOfHeldData ==
  \A after \in {Stats(orders', ads', expenses', cogs', settlements')} :
    /\ after.totalOrders = Len(orders)
    /\ after.totalSales = SumNums([k \in 1..Len(orders) |-> orders[k].total])
    /\ after.totalAdSpend = SumNums([k \in 1..Len(ads) |-> ads[k].spend])
    /\ after.totalShipping = SumNums([k \in 1..Len(orders) |-> orders[k].shipping])
    /\ SameValue(after.totalCogs,
                 SumFn([p \in LineItems |->
                          NumMul(orders[p[1]].lineItems[p[2]].quantity,
                                 UnitCost(orders[p[1]].lineItems[p[2]].sku))]))
    /\ after.totalFees = NumMul(after.totalSales, FeeRate)
    /\ after.netProfit =
         NumSub(NumSub(NumSub(NumSub(NumSub(after.totalSales, after.totalAdSpend),
                                     after.totalCogs),
                              after.totalShipping),
                       SumNums([k \in 1..Len(expenses) |-> expenses[k].amount])),
                after.totalFees)
    /\ \A series \in ChartData(orders') : IsSeriesOf(series, OrderRecords)

\* C18.  An upload of report type shopify_sales or settlement changes no
\* state: after its callback has run, orders, ads, settlements, expenses and
\* the cost table are as before, and every field of stats and the revenue
\* series is as before and is that of the data held before the upload.
C18_UnreadReports ==
  [][\A i \in 1..Len(readers) :
       UnreadReportCompletes(i) =>
         /\ orders' = orders
         /\ ads' = ads
         /\ settlements' = settlements
         /\ expenses' = expenses
         /\ cogs' = cogs
         /\ Stats(orders', ads', expenses', cogs', settlements') = stats
         /\ ChartData(orders') = chartData
         /\ AggregatesOfHeldData]_vars

\* C18 witness: a sales report and a settlement report with data rows have
\* been read, and the orders and ads are those of the start.
C18_Witness ==
  /\ DoneUploads("shopify_sales") # {}
  /\ DoneUploads("settlement") # {}
  /\ \A i \in DoneUploads("shopify_sales") \cup DoneUploads("settlement") :
       ParsedFile[readers[i].file] # << >>
  /\ orders = MOCK_ORDERS
  /\ ads = << >>
  /\ settlements = << >>

====
